---- MODULE Spec2Model ----
(***************************************************************************)
(* Host-side driver of the addressable syringe pump (syrpp.SyrPump):       *)
(* symbol tables, frame decode, trigger encode/decode, program compiler    *)
(* and extractor, config merge and address scan.                           *)
(*                                                                         *)
(* Text is modelled by TLA+ strings, sliced with SubSeq as Python slices   *)
(* them.  The two framing bytes 0x02 / 0x03 are written STX / ETX.         *)
(***************************************************************************)
EXTENDS Integers, Sequences, FiniteSets, TLC

VARIABLES
    timeout,    \* self.serial.timeout: "None", "default" (the constructor's
                \* .05) or "set" (a number measured by set_timeout)
    bus,        \* addresses at which a pump answers on the serial bus
    dev,        \* the pumps' stored state, by address
    wire,       \* texts written to the transport by the last operation
    ret,        \* outcome of the last operation (return value or exception)
    rx,         \* frames received by the serial port and not yet read
    calls       \* callers sharing the instance: where each is in _raw_cmd

vars == <<timeout, bus, dev, wire, ret, rx, calls>>

(***************************************************************************)
(* Python string helpers                                                   *)
(***************************************************************************)
Min(a, b) == IF a <= b THEN a ELSE b

\* s[i:] for i >= 0
PyFrom(s, i) == IF i >= Len(s) THEN "" ELSE SubSeq(s, i + 1, Len(s))

\* s[:j] for j >= 0
PyTo(s, j) == IF j <= 0 THEN "" ELSE SubSeq(s, 1, Min(j, Len(s)))

\* s[-n:] for n >= 1
PyLast(s, n) == IF n >= Len(s) THEN s ELSE SubSeq(s, Len(s) - n + 1, Len(s))

\* s[:-n] for n >= 1
PyDropLast(s, n) == IF n >= Len(s) THEN "" ELSE SubSeq(s, 1, Len(s) - n)

\* s[i] for 0 <= i < len(s)
PyAt(s, i) == SubSeq(s, i + 1, i + 1)

Digits == <<"0", "1", "2", "3", "4", "5", "6", "7", "8", "9">>

IsDigit(c) == \E i \in 1..10 : Digits[i] = c

DigitVal(c) == (CHOOSE i \in 1..10 : Digits[i] = c) - 1

\* str.isdigit() of a non-empty string
IsDigits(s) == Len(s) > 0 /\ \A i \in 1..Len(s) : IsDigit(SubSeq(s, i, i))

\* int(s) on a string of decimal digits
RECURSIVE StrInt(_)
StrInt(s) ==
    IF Len(s) = 0 THEN 0
    ELSE 10 * StrInt(SubSeq(s, 1, Len(s) - 1)) + DigitVal(SubSeq(s, Len(s), Len(s)))

\* str(n) of a non-negative int
IntStr(n) == ToString(n)

\* ''.join(seq)
RECURSIVE Join(_)
Join(seq) == IF seq = <<>> THEN "" ELSE Head(seq) \o Join(Tail(seq))

(***************************************************************************)
(* Symbol tables: code -> names.  A scalar name is a 1-element list.       *)
(***************************************************************************)
COMMAND ==
    ("DIA" :> <<"diameter">> @@ "PHN" :> <<"phase">> @@ "FUN" :> <<"function">> @@
     "RAT" :> <<"rate">> @@ "VOL" :> <<"volume">> @@ "DIR" :> <<"direction">> @@
     "DIS" :> <<"volume dispensed">> @@ "CLD" :> <<"clear volume dispensed">> @@
     "SAF" :> <<"com mode">> @@ "AL" :> <<"alarm">> @@ "PF" :> <<"power fail">> @@
     "TRG" :> <<"trigger">> @@ "BP" :> <<"key beep">> @@ "OUT" :> <<"ttl output">> @@
     "IN" :> <<"ttl input">> @@ "BUZ" :> <<"buzzer">> @@
     "VER" :> <<"firmware version">> @@ "RUN" :> <<"start program">> @@
     "STP" :> <<"stop program">>)

GET_CMD == <<"DIA", "PHN", "FUN", "RAT", "VOL", "DIR", "DIS",
             "SAF", "AL", "PF", "TRG", "BP", "IN", "BUZ", "VER">>

SET_CMD == <<"DIA", "PHN", "FUN", "RAT", "VOL", "DIR", "CLD",
             "SAF", "AL", "PF", "TRG", "BP", "OUT", "BUZ">>

PROMPT ==
    ("I" :> <<"infusing">> @@ "W" :> <<"withdrawing">> @@
     "S" :> <<"pumping program stopped">> @@ "P" :> <<"pumping program paused">> @@
     "T" :> <<"pause phase">> @@ "U" :> <<"operational trigger wait (user wait)">>)

ALARM ==
    ("R" :> <<"pump was reset (power was interrupted)">> @@
     "S" :> <<"pump motor stalled">> @@
     "T" :> <<"safe mode communications time out">> @@
     "E" :> <<"pumping program error">> @@
     "O" :> <<"pumping program phase is out of range">>)

ERROR ==
    ("" :> <<"CommandNotRecognized">> @@
     "NA" :> <<"CommandNotAvailable">> @@ "OOR" :> <<"DataOutOfRange">> @@
     "COM" :> <<"InvalidComPacket">> @@ "IGN" :> <<"CommandIgnored">>)

PUMP_DIRECTION ==
    ("INF" :> <<"infuse">> @@ "WDR" :> <<"withdraw">> @@ "REV" :> <<"reverse">>)

TRIGGER ==
    ("F" :> <<"falling edge", "falling">> @@ "R" :> <<"rising edge", "rising">> @@
     "L" :> <<"low level", "low">> @@ "H" :> <<"high level", "high">>)

\* start, stop pattern -> device code
TRIGGER_START_STOP ==
    ("FF" :> <<"FT">> @@ "FR" :> <<"FH">> @@ "RR" :> <<"F2">> @@ "RF" :> <<"LE">> @@
     "F_" :> <<"ST">> @@ "R_" :> <<"T2">> @@ "_F" :> <<"SP">> @@ "_R" :> <<"P2">> @@
     "L_" :> <<"RL">> @@ "H_" :> <<"RH">> @@ "_L" :> <<"SL">> @@ "_H" :> <<"SH">> @@
     "__" :> <<"OF">>)

TRIGGER_SETUP ==
    ("FT" :> <<"foot switch">> @@ "FH" :> <<"foot switch hold">> @@
     "F2" :> <<"foot switch reverse">> @@ "LE" :> <<"level">> @@
     "ST" :> <<"start only">> @@ "T2" :> <<"start only reversed">> @@
     "SP" :> <<"stop only">> @@ "P2" :> <<"stop only reversed">> @@
     "RL" :> <<"start on low">> @@ "RH" :> <<"start on high">> @@
     "SL" :> <<"stop on low">> @@ "SH" :> <<"stop on high">> @@
     "OF" :> <<"trigger off">>)

RATE_FUNCTION == {"RAT", "INC", "DEC"}

RATE_PARAM == <<"RAT", "VOL", "DIR">>

PHASE_FUNCTION ==
    ("RAT" :> <<"rate">> @@ "INC" :> <<"increment">> @@ "DEC" :> <<"decrement">> @@
     "STP" :> <<"stop">> @@ "JMP" :> <<"jump">> @@ "LOP" :> <<"loop for">> @@
     "LPS" :> <<"loop start">> @@ "LPE" :> <<"loop end">> @@ "PAS" :> <<"pause">> @@
     "IF" :> <<"if">> @@ "EVN" :> <<"event trap">> @@ "EVR" :> <<"event reset">> @@
     "BEP" :> <<"beep">> @@ "OUT" :> <<"output">>)

PHASE_FUN_DATA ==
    ("JMP" :> "phase" @@ "LOP" :> "count" @@ "PAS" :> "number" @@
     "IF" :> "phase" @@ "EVN" :> "phase" @@ "OUT" :> "ttl")

VOLUME_UNITS ==
    ("U" :> <<"μl", "ul", "microliter">> @@
     "M" :> <<"ml", "mL", "milliliter", "cc">>)

TIME_UNITS ==
    ("M" :> <<"min", "mn", "minute">> @@ "H" :> <<"h", "hr", "hour">>)

DATA_RANGE ==
    [address |-> <<0, 99>>, phase |-> <<1, 41>>, number |-> <<0, 99>>,
     count |-> <<1, 99>>, ttl |-> <<0, 1>>, timeout |-> <<0, 255>>]

\* the elements of a Python list or range, as a set
Range(seq) == {seq[i] : i \in DOMAIN seq}

(***************************************************************************)
(* Symbol Registry lookups.  A result is [exc, val]: exc = "" on return,   *)
(* else the name of the exception raised.                                  *)
(***************************************************************************)
Ok(v) == [exc |-> "", val |-> v]

Raise(e) == [exc |-> e, val |-> ""]

\* SyrPump._from_dict_key: the first name stored under key k
FromDictKey(d, k) ==
    IF k \notin DOMAIN d THEN Raise("AssertionError") ELSE Ok(Head(d[k]))

\* the keys whose value is, or lists, v
KeysOf(d, v) == {k \in DOMAIN d : v \in Range(d[k])}

\* SyrPump._from_dict_value: the one key whose value is, or lists, v
CanonicalOnlyFromDictValue(d, v) ==
    LET k == {c \in DOMAIN d : Head(d[c]) = v}
    IN  IF Cardinality(k) # 1 THEN Raise("AssertionError")
        ELSE Ok(CHOOSE c \in k : TRUE)

FromDictValue(d, v) ==
    LET k == KeysOf(d, v)
    IN  IF Cardinality(k) # 1 THEN Raise("AssertionError")
        ELSE Ok(CHOOSE c \in k : TRUE)

\* SyrPump._check_range
CheckRange(v, type) ==
    IF type \notin DOMAIN DATA_RANGE THEN Raise("AssertionError")
    ELSE IF DATA_RANGE[type][1] <= v /\ v <= DATA_RANGE[type][2] THEN Ok(v)
    ELSE Raise("AssertionError")

(***************************************************************************)
(* Frame codec                                                             *)
(***************************************************************************)
\* the framing bytes b'\x02' and b'\x03', written as two characters that no
\* payload contains
STX == "{"

ETX == "}"

\* the line terminator '\r\n'
CRLF == "\r\n"

\* a decoded Response: the dict res of SyrPump._cmd; "" is an absent key
Response(address, prompt, alarm, data) ==
    [address |-> address, prompt |-> prompt, alarm |-> alarm, data |-> data]

NoResponse == Response(0, "", "", "")

\* SyrPump._raw_cmd after the write: receive is what read_until returned
RawCmd(t, receive) ==
    IF t # "None" /\ receive = "" THEN Raise("TimeoutError")
    ELSE IF receive = "" THEN Raise("IndexError")
    ELSE IF ~(PyAt(receive, 0) = STX /\ PyLast(receive, 1) = ETX)
        THEN Raise("AssertionError")
    ELSE Ok(PyDropLast(PyFrom(receive, 1), 1))

\* the tail of SyrPump._cmd for an alarm status: data starts after A?<code>
AlarmDataAfterCode(response) == PyFrom(response, 5)

\* mutation: an error token is stored as a value
CmdDataNoError(res, data) ==
    IF data = "" THEN Ok(res) ELSE Ok([res EXCEPT !.data = data])

\* the data part of SyrPump._cmd: an error token raises, a value is stored
CmdData(res, data) ==
    IF data = "" THEN Ok(res)
    ELSE IF PyAt(data, 0) = "?" THEN
        LET e == FromDictKey(ERROR, PyFrom(data, 1))
        IN  IF e.exc # "" THEN Raise(e.exc) ELSE Raise(e.val)
    ELSE Ok([res EXCEPT !.data = data])

\* mutation: the status character is not classified
CmdDecodeAnyStatus(response) ==
    IF ~IsDigits(PyTo(response, 2)) THEN Raise("ValueError")
    ELSE IF Len(response) < 3 THEN Raise("IndexError")
    ELSE CmdData(Response(StrInt(PyTo(response, 2)), PyAt(response, 2), "", ""),
                 PyFrom(response, 3))

\* SyrPump._cmd from the decode of the stripped payload on
CmdDecode(response) ==
    IF ~IsDigits(PyTo(response, 2)) THEN Raise("ValueError")
    ELSE IF Len(response) < 3 THEN Raise("IndexError")
    ELSE LET address == StrInt(PyTo(response, 2))
             status == PyAt(response, 2)
         IN  IF status \in DOMAIN PROMPT
                 THEN CmdData(Response(address, status, "", ""), PyFrom(response, 3))
             ELSE IF status = "A" THEN
                 IF Len(response) < 4 THEN Raise("IndexError")
                 ELSE IF PyAt(response, 3) # "?" THEN Raise("AssertionError")
                 ELSE IF Len(response) < 5 THEN Raise("IndexError")
                 ELSE IF FromDictKey(ALARM, PyAt(response, 4)).exc # ""
                     THEN Raise("AssertionError")
                 ELSE CmdData(Response(address, "", PyAt(response, 4), ""),
                              AlarmDataAfterCode(response))
             ELSE Raise("ValueError")

(***************************************************************************)
(* The pumps on the bus: what each stores and how it answers a command.    *)
(* The grammar of the replies is the one the driver's getters parse.       *)
(***************************************************************************)
\* the bus addresses a pump may be wired to in this model, in probe order
MaxPumps == 4

Wired == <<3, 17, 42, 0, 99>>

Bus == {Wired[i] : i \in 1..MaxPumps}

PhaseMin == DATA_RANGE["phase"][1]

PhaseMax == DATA_RANGE["phase"][2]

Phases == PhaseMin..PhaseMax

\* an unused phase slot reads back as the stop function
EmptySlot ==
    [f |-> "STP", d |-> "", rat |-> "0", ru |-> "MH", vol |-> "0", vu |-> "M",
     dir |-> "INF"]

\* alarm is the alarm the pump has to report ("" when none): it reports it
\* with its next reply and then clears it
FactoryPump ==
    [phase |-> 1, prog |-> [p \in Phases |-> EmptySlot], trg |-> "FT",
     alarm |-> ""]

\* c in s, for a one-character c
Contains(s, c) == \E i \in 1..Len(s) : SubSeq(s, i, i) = c

\* two characters for the number n, zero padded
Pad2(n) == IntStr(n \div 10) \o IntStr(n % 10)

\* the inline datum as the pump prints it after the function: n.n or nn
FunDatum(d) ==
    IF d = "" THEN ""
    ELSE IF Contains(d, ".") THEN d
    ELSE IF Len(d) = 1 THEN "0" \o d
    ELSE d

\* the pump at one address handling one command: its new state and the data
\* field of its reply (diameter, communication mode and output level are
\* accepted and not kept: nothing here reads them back)
Pump(d, cmd, args) ==
    LET slot == d.prog[d.phase]
        Set(field, v) == [d EXCEPT !.prog[d.phase][field] = v]
        Same(data) == [d |-> d, data |-> data]
        Done(nd) == [d |-> nd, data |-> ""]
    IN  CASE cmd = "" -> Same("")
          [] cmd = "PHN" ->
                IF args = <<>> THEN Same(IntStr(d.phase))
                ELSE IF IsDigits(args[1]) /\ StrInt(args[1]) \in Phases
                    THEN Done([d EXCEPT !.phase = StrInt(args[1])])
                ELSE Same("?OOR")
          [] cmd = "FUN" ->
                IF args = <<>> THEN Same(slot.f \o FunDatum(slot.d))
                ELSE IF args[1] \notin DOMAIN PHASE_FUNCTION THEN Same("?")
                ELSE Done([d EXCEPT !.prog[d.phase].f = args[1],
                                    !.prog[d.phase].d =
                                        IF Len(args) >= 2 THEN args[2] ELSE ""])
          [] cmd = "RAT" ->
                IF args = <<>> THEN Same(slot.rat \o slot.ru)
                ELSE IF slot.f \notin RATE_FUNCTION THEN Same("?NA")
                ELSE IF Len(args) = 3
                    THEN Done([d EXCEPT !.prog[d.phase].rat = args[1],
                                        !.prog[d.phase].ru = args[2] \o args[3]])
                ELSE Done(Set("rat", args[1]))
          [] cmd = "VOL" ->
                IF args = <<>> THEN Same(slot.vol \o slot.vu \o "L")
                ELSE IF slot.f \notin RATE_FUNCTION THEN Same("?NA")
                ELSE IF args[1] \in {"UL", "ML"}
                    THEN Done(Set("vu", PyAt(args[1], 0)))
                ELSE Done(Set("vol", args[1]))
          [] cmd = "DIR" ->
                IF args = <<>> THEN Same(slot.dir)
                ELSE IF slot.f \notin RATE_FUNCTION THEN Same("?NA")
                ELSE IF args[1] \in DOMAIN PUMP_DIRECTION
                    THEN Done(Set("dir", args[1]))
                ELSE Same("?OOR")
          [] cmd = "TRG" ->
                IF args = <<>> THEN Same(d.trg)
                ELSE IF args[1] \in DOMAIN TRIGGER_SETUP
                    THEN Done([d EXCEPT !.trg = args[1]])
                ELSE Same("?OOR")
          [] cmd = "DIA" -> IF args = <<>> THEN Same("10.00") ELSE Same("")
          [] cmd = "SAF" ->
                IF args = <<>> THEN Same("0")
                ELSE IF IsDigits(args[1]) /\ StrInt(args[1]) <= 255 THEN Same("")
                ELSE Same("?OOR")
          [] cmd = "OUT" ->
                IF Len(args) = 2 /\ args[2] \in {"0", "1"} THEN Same("")
                ELSE Same("?OOR")
          [] OTHER -> Same("?")

\* the frame a pump at address addr sends: STX, 2-digit address, the status
\* (the prompt of a stopped pump, or A? and the alarm), the data field, ETX
Frame(addr, alarm, data) ==
    STX \o Pad2(addr) \o (IF alarm = "" THEN "S" ELSE "A?" \o alarm) \o data \o ETX

(***************************************************************************)
(* One command, SyrPump._cmd.  A call context ctx threads what a handler   *)
(* has done so far: the pumps, serial.timeout, the texts written, the      *)
(* exception raised                                                        *)
(* ("" while none; once raised every later call of the handler is          *)
(* skipped) and the Response of the last command.                          *)
(***************************************************************************)
Ctx(d, t) ==
    [dev |-> d, timeout |-> t, wire |-> <<>>, exc |-> "", res |-> NoResponse]

\* serial.write followed by serial.read_until: the pumps after the command
\* and the bytes received ("" when no pump answers before the timeout; with
\* no timeout set the read then blocks for ever)
Transport(d, t, addr, cmd, args) ==
    IF addr \in bus
        THEN LET p == Pump(d[addr], cmd, args)
             IN  [dev |-> [d EXCEPT ![addr] = [p.d EXCEPT !.alarm = ""]],
                  receive |-> Frame(addr, d[addr].alarm, p.data),
                  blocked |-> FALSE]
    ELSE [dev |-> d, receive |-> "", blocked |-> t = "None"]

\* mutation: the address is written as two digits
CmdTextPadded(addr, cmd, args) == Join(<<Pad2(addr), cmd>> \o args)

\* fields of SyrPump._cmd: address, mnemonic and arguments, joined bare
CmdText(addr, cmd, args) == Join(<<IntStr(addr), cmd>> \o args)

\* SyrPump._cmd when the transport behaves as t: [dev, receive, blocked]
CmdWith(ctx, addr, cmd, args, t) ==
    IF ctx.exc # "" THEN ctx
    ELSE IF CheckRange(addr, "address").exc # ""
        THEN [ctx EXCEPT !.exc = "AssertionError"]
    ELSE LET raw == RawCmd(ctx.timeout, t.receive)
             r == IF t.blocked THEN Raise("Blocked")
                  ELSE IF raw.exc # "" THEN raw
                  ELSE CmdDecode(raw.val)
         IN  [dev |-> t.dev,
              timeout |-> ctx.timeout,
              wire |-> Append(ctx.wire, CmdText(addr, cmd, args) \o CRLF),
              exc |-> r.exc,
              res |-> IF r.exc # "" THEN NoResponse ELSE r.val]

Cmd(ctx, addr, cmd, args) ==
    CmdWith(ctx, addr, cmd, args,
            Transport(ctx.dev, ctx.timeout, addr, cmd, args))

\* r['data'] of a Response: KeyError when the reply carried no data
DataOf(ctx) ==
    IF ctx.exc # "" THEN ctx
    ELSE IF ctx.res.data = "" THEN [ctx EXCEPT !.exc = "KeyError"]
    ELSE ctx

\* what a handler hands back: the context it ends in and its return value
Out(ctx, v) == [ctx |-> ctx, val |-> IF ctx.exc # "" THEN "" ELSE v]

Fail(ctx, e) == [ctx |-> [ctx EXCEPT !.exc = e], val |-> ""]

\* the value None
None == "None"

(***************************************************************************)
(* Trigger setup                                                           *)
(***************************************************************************)
\* SyrPump.get_trigger
GetTrigger(ctx, address, ret_type) ==
    LET c == DataOf(Cmd(ctx, address, "TRG", <<>>))
        code == c.res.data
        name == FromDictKey(TRIGGER_SETUP, code)
        pat == FromDictValue(TRIGGER_START_STOP, code)
        d == [start |-> PyAt(pat.val, 0), stop |-> PyAt(pat.val, 1)]
        s == FromDictKey(TRIGGER, d.start)
        p == FromDictKey(TRIGGER, d.stop)
    IN  IF c.exc # "" THEN Out(c, "")
        ELSE IF ret_type = "code" THEN Out(c, code)
        ELSE IF ret_type = "name"
            THEN IF name.exc # "" THEN Fail(c, name.exc) ELSE Out(c, name.val)
        ELSE IF pat.exc # "" THEN Fail(c, pat.exc)
        ELSE IF ret_type = "start stop code" THEN Out(c, d)
        ELSE IF ret_type = "start stop" THEN
            IF s.exc # "" THEN Fail(c, s.exc)
            ELSE IF p.exc # "" THEN Fail(c, p.exc)
            ELSE Out(c, [start |-> s.val, stop |-> p.val])
        ELSE Fail(c, "ValueError")

\* the letter set_trigger builds for one of start, stop
EdgeCode(s) == IF s = None THEN Ok("_") ELSE FromDictValue(TRIGGER, s)

\* mutation: a setup name given together with conditions wins over them
SetTriggerNameWins(ctx, address, trigger, start, stop) ==
    LET t == FromDictValue(TRIGGER_SETUP, trigger)
        s == EdgeCode(start)
        p == EdgeCode(stop)
        k == FromDictKey(TRIGGER_START_STOP, s.val \o p.val)
    IN  IF trigger # None
            THEN IF t.exc # "" THEN Fail(ctx, t.exc)
                 ELSE Out(Cmd(ctx, address, "TRG", <<t.val>>), None)
        ELSE IF s.exc # "" THEN Fail(ctx, s.exc)
        ELSE IF p.exc # "" THEN Fail(ctx, p.exc)
        ELSE IF k.exc # "" THEN Fail(ctx, k.exc)
        ELSE Out(Cmd(ctx, address, "TRG", <<k.val>>), None)

\* SyrPump.set_trigger
SetTrigger(ctx, address, trigger, start, stop) ==
    IF trigger # None THEN
        IF ~(start = None /\ stop = None) THEN Fail(ctx, "AssertionError")
        ELSE LET t == FromDictValue(TRIGGER_SETUP, trigger)
             IN  IF t.exc # "" THEN Fail(ctx, t.exc)
                 ELSE Out(Cmd(ctx, address, "TRG", <<t.val>>), None)
    ELSE LET s == EdgeCode(start)
             p == EdgeCode(stop)
             t == FromDictKey(TRIGGER_START_STOP, s.val \o p.val)
         IN  IF s.exc # "" THEN Fail(ctx, s.exc)
             ELSE IF p.exc # "" THEN Fail(ctx, p.exc)
             ELSE IF t.exc # "" THEN Fail(ctx, t.exc)
             ELSE Out(Cmd(ctx, address, "TRG", <<t.val>>), None)

(***************************************************************************)
(* Status query, timeout calibration and address scan                      *)
(***************************************************************************)
\* SyrPump.get_status
GetStatus(ctx, address, code) ==
    LET c == Cmd(ctx, address, "", <<>>)
    IN  IF c.exc # "" THEN Out(c, "")
        ELSE IF c.res.prompt = "" THEN Fail(c, "KeyError")
        ELSE IF code THEN Out(c, c.res.prompt)
        ELSE Out(c, PROMPT[c.res.prompt][1])

\* default n_times of set_timeout
N_TIMES == 10

\* the status queries of set_timeout: n_times to each address of the list
RECURSIVE Calibrate(_, _, _)
Calibrate(ctx, address, n) ==
    IF address = <<>> \/ ctx.exc # "" THEN ctx
    ELSE IF n = 0 THEN Calibrate(ctx, Tail(address), N_TIMES)
    ELSE Calibrate(Cmd(ctx, Head(address), "", <<>>), address, n - 1)

\* SyrPump.set_timeout: address is a list of ints, <<a>> for the int a and
\* <<>> for None; the timeout derived from the measured time is some
\* number, "set"
SetTimeout(ctx, address) ==
    LET list == IF address = <<>> THEN <<0>> ELSE address
        c == Calibrate(ctx, list, N_TIMES)
    IN  IF c.exc # "" THEN Out(c, "")
        ELSE Out([c EXCEPT !.timeout = "set"], "set")

AddressMin == DATA_RANGE["address"][1]

AddressMax == DATA_RANGE["address"][2]

\* mutation: a timeout of a probe is raised to the caller
ProbeRaising(o, a) ==
    IF o.ctx.exc # "" THEN o
    ELSE LET c == Cmd(o.ctx, a, "", <<>>)
         IN  IF c.exc # "" THEN Out(c, "") ELSE Out(c, Append(o.val, a))

\* one turn of the loop of get_avail_address: o = [ctx, val] is the call so
\* far, val the list address
Probe(o, a) ==
    IF o.ctx.exc # "" THEN o
    ELSE LET c == Cmd(o.ctx, a, "", <<>>)
         IN  IF c.exc = "TimeoutError" THEN Out([c EXCEPT !.exc = ""], o.val)
             ELSE IF c.exc # "" THEN Out(c, "")
             ELSE Out(c, Append(o.val, a))

\* the loop of get_avail_address over lo..hi in ascending order (evaluated
\* by halves, which keeps the evaluation shallow)
RECURSIVE ProbeAll(_, _, _)
ProbeAll(o, lo, hi) ==
    IF lo > hi THEN o
    ELSE IF lo = hi THEN Probe(o, lo)
    ELSE LET mid == (lo + hi) \div 2
             first == ProbeAll(o, lo, mid)
         IN  IF first.ctx.exc # "" THEN first ELSE ProbeAll(first, mid + 1, hi)

\* SyrPump.get_avail_address
GetAvailAddress(ctx) ==
    LET c == IF ctx.timeout = "None" THEN SetTimeout(ctx, <<>>).ctx ELSE ctx
    IN  IF c.exc # "" THEN Out(c, "")
        ELSE ProbeAll(Out(c, <<>>), AddressMin, AddressMax)

(***************************************************************************)
(* Python values of a config: every value is one record, of which the tag  *)
(* t says which fields count.  A dict is the list of its (key, value)      *)
(* pairs in insertion order.  A number is its decimal text: the integer    *)
(* part ip and the digits fr behind the point without trailing zeros.      *)
(***************************************************************************)
PVal(t, s, ip, fr, items) == [t |-> t, s |-> s, ip |-> ip, fr |-> fr, items |-> items]

PNone == PVal("none", "", 0, "", <<>>)

PStr(s) == PVal("str", s, 0, "", <<>>)

PInt(n) == PVal("int", "", n, "", <<>>)

PFloat(ip, fr) == PVal("float", "", ip, fr, <<>>)

PDict(items) == PVal("dict", "", 0, "", items)

PList(items) == PVal("list", "", 0, "", items)

IsNum(v) == v.t \in {"int", "float"}

\* d.keys(), k in d, d[k] for a dict given by its pairs
Keys(items) == {items[i][1] : i \in DOMAIN items}

Has(items, k) == k \in Keys(items)

Get(items, k) == items[CHOOSE i \in DOMAIN items : items[i][1] = k][2]

\* the pairs of a dict without key k
RECURSIVE Without(_, _)
Without(items, k) ==
    IF items = <<>> THEN <<>>
    ELSE IF Head(items)[1] = k THEN Without(Tail(items), k)
    ELSE <<Head(items)>> \o Without(Tail(items), k)

\* a == b of Python: numbers by value, dicts by their keys, lists in order
RECURSIVE PyEq(_, _)
PyEq(a, b) ==
    IF IsNum(a) /\ IsNum(b) THEN a.ip = b.ip /\ a.fr = b.fr
    ELSE IF a.t # b.t THEN FALSE
    ELSE IF a.t = "str" THEN a.s = b.s
    ELSE IF a.t = "dict" THEN
        /\ Keys(a.items) = Keys(b.items)
        /\ \A k \in Keys(a.items) : PyEq(Get(a.items, k), Get(b.items, k))
    ELSE IF a.t = "list" THEN
        /\ Len(a.items) = Len(b.items)
        /\ \A i \in DOMAIN a.items : PyEq(a.items[i], b.items[i])
    ELSE TRUE

\* s.replace(a, b) for one-character a, b
RECURSIVE Replace(_, _, _)
Replace(s, a, b) ==
    IF Len(s) = 0 THEN ""
    ELSE (IF Head(s) = a THEN b ELSE Head(s)) \o Replace(Tail(s), a, b)

\* s without its trailing characters c
RECURSIVE RStrip(_, _)
RStrip(s, c) ==
    IF Len(s) > 0 /\ PyLast(s, 1) = c THEN RStrip(PyDropLast(s, 1), c) ELSE s

RECURSIVE Pow10(_)
Pow10(n) == IF n = 0 THEN 1 ELSE 10 * Pow10(n - 1)

\* n in exactly w digits
RECURSIVE PadInt(_, _)
PadInt(n, w) == IF w = 0 THEN "" ELSE PadInt(n \div 10, w - 1) \o IntStr(n % 10)

\* round(f, nd) of a float given by its decimal text: to the nearest, a tie
\* at the first dropped digit to the even neighbour
RoundFloat(f, nd) ==
    IF Len(f.fr) <= nd THEN f
    ELSE LET kept == f.ip * Pow10(nd) + StrInt(PyTo(f.fr, nd))
             rest == PyFrom(f.fr, nd)
             first == DigitVal(PyAt(rest, 0))
             tie == first = 5 /\ RStrip(PyFrom(rest, 1), "0") = ""
             up == first > 5 \/ (first = 5 /\ ~tie) \/ (tie /\ kept % 2 = 1)
             n == IF up THEN kept + 1 ELSE kept
         IN  PFloat(n \div Pow10(nd), RStrip(PadInt(n % Pow10(nd), nd), "0"))

\* str(x) of a number
NumStr(x) ==
    IF x.t = "int" THEN IntStr(x.ip)
    ELSE IntStr(x.ip) \o "." \o (IF x.fr = "" THEN "0" ELSE x.fr)

\* float(s) of a decimal text s
ParseFloat(s) ==
    LET dot == IF Contains(s, ".")
                   THEN CHOOSE i \in 1..Len(s) : SubSeq(s, i, i) = "." ELSE Len(s) + 1
    IN  PFloat(StrInt(PyTo(s, dot - 1)), RStrip(PyFrom(s, dot), "0"))

\* float(s) accepts s
IsFloatText(s) ==
    /\ Len(s) > 0
    /\ \A i \in 1..Len(s) : IsDigit(SubSeq(s, i, i)) \/ SubSeq(s, i, i) = "."
    /\ Cardinality({i \in 1..Len(s) : SubSeq(s, i, i) = "."}) <= 1
    /\ \E i \in 1..Len(s) : IsDigit(SubSeq(s, i, i))

MAX_DIGITS == 4

MAX_DECIMAL == 3

\* mutation: the range of the magnitude is not asserted
FloatAnyMagnitude(f, max_digits, max_decimal) ==
    IF ~IsNum(f) THEN Raise("TypeError")
    ELSE LET r == IF f.t = "int" THEN f ELSE RoundFloat(f, max_decimal)
             t == NumStr(r)
         IN  IF Contains(t, ".")
                 THEN IF Len(t) >= max_digits + 1
                          THEN Ok(PyLast(t, max_digits + 1)) ELSE Ok(t)
             ELSE IF Len(t) >= max_digits THEN Ok(PyLast(t, max_digits))
             ELSE Ok(t)

\* SyrPump._float on a number f (a negative number is a negative int here)
Float(f, max_digits, max_decimal) ==
    IF ~IsNum(f) THEN Raise("TypeError")
    ELSE IF ~(0 <= f.ip
              /\ (f.ip < Pow10(max_digits) - 1
                  \/ (f.ip = Pow10(max_digits) - 1 /\ f.fr = "")))
        THEN Raise("AssertionError")
    ELSE LET r == IF f.t = "int" THEN f ELSE RoundFloat(f, max_decimal)
             t == NumStr(r)
         IN  IF Contains(t, ".")
                 THEN IF Len(t) >= max_digits + 1
                          THEN Ok(PyLast(t, max_digits + 1)) ELSE Ok(t)
             ELSE IF Len(t) >= max_digits THEN Ok(PyLast(t, max_digits))
             ELSE Ok(t)

(***************************************************************************)
(* Phase, function and the rate-class parameters of the selected phase.    *)
(* A getter is its command followed by the reading of the reply c.         *)
(***************************************************************************)
\* the text _cmd sends for an argument: a str as it is, a number by str()
\* (arguments of other types do not occur in the calls made here)
ArgText(v) ==
    IF v.t = "str" THEN v.s ELSE IF IsNum(v) THEN NumStr(v) ELSE "<" \o v.t \o ">"

\* a table lookup by a value that has to be a str to be found
FromDictPVal(table, v) ==
    IF v.t = "str" THEN FromDictValue(table, v.s) ELSE Raise("AssertionError")

\* d[k] = v of a dict given by its pairs: in place, or appended
Put(items, k, v) ==
    IF Has(items, k)
        THEN [i \in DOMAIN items |-> IF items[i][1] = k THEN <<k, v>> ELSE items[i]]
    ELSE Append(items, <<k, v>>)

\* SyrPump.set_phase
SetPhase(ctx, address, phase) ==
    IF ctx.exc # "" THEN Out(ctx, None)
    ELSE IF CheckRange(phase, "phase").exc # "" THEN Fail(ctx, "AssertionError")
    ELSE Out(Cmd(ctx, address, "PHN", <<IntStr(phase)>>), None)

\* the datum get_function reads from the one character d1 = data[-2]
OneDigitDatum(d1) == PInt(DigitVal(d1))

\* the dict {data (if any), function} get_function builds from the data
\* field of the reply c, with d3 = data[-3:] and d1 = data[-2]
FunctionIn(c, data, d3, d1, code) ==
    LET frac == /\ Len(d3) = 3
                /\ IsDigit(PyAt(d3, 0)) /\ PyAt(d3, 1) = "." /\ IsDigit(PyAt(d3, 2))
        hasData == frac \/ IsDigit(d1)
        f == IF frac THEN PyDropLast(data, 3)
             ELSE IF IsDigit(d1) THEN PyDropLast(data, 2)
             ELSE data
        num == IF frac THEN ParseFloat(d3) ELSE OneDigitDatum(d1)
        datum == IF f = "PAS" /\ num.ip = 0 /\ num.fr = "" THEN PStr("trigger") ELSE num
        name == IF code THEN f ELSE FromDictKey(PHASE_FUNCTION, f).val
    IN  IF ~frac /\ Len(data) < 2 THEN Fail(c, "IndexError")
        ELSE IF frac /\ f # "PAS" THEN Fail(c, "AssertionError")
        ELSE IF ~frac /\ IsDigit(d1) /\ f \notin DOMAIN PHASE_FUN_DATA
            THEN Fail(c, "AssertionError")
        ELSE IF f \notin DOMAIN PHASE_FUNCTION THEN Fail(c, "AssertionError")
        ELSE IF f = "PAS" /\ ~hasData THEN Fail(c, "KeyError")
        ELSE Out(c, PDict((IF hasData THEN <<<<"data", datum>>>> ELSE <<>>)
                          \o <<<<"function", PStr(name)>>>>))

FunctionOf(c, code) ==
    IF c.exc # "" THEN Out(c, "")
    ELSE FunctionIn(c, c.res.data, PyLast(c.res.data, 3),
                    PyAt(PyLast(c.res.data, 2), 0), code)

\* SyrPump.get_function
GetFunction(ctx, address, code) ==
    FunctionOf(DataOf(Cmd(ctx, address, "FUN", <<>>)), code)

\* set_function once the function name has been looked up: f = [exc, val]
SetFunctionCode(ctx, address, f, data) ==
    LET datum == IF f.val # "PAS" THEN Ok(ArgText(data))
                 ELSE IF data = PStr("trigger") THEN Ok("0")
                 ELSE IF IsNum(data) THEN Float(data, 2, 1)
                 ELSE Ok(ArgText(data))
    IN  IF ctx.exc # "" THEN Out(ctx, None)
        ELSE IF f.exc # "" THEN Fail(ctx, f.exc)
        ELSE IF data = PNone THEN Out(Cmd(ctx, address, "FUN", <<f.val>>), None)
        ELSE IF f.val \notin DOMAIN PHASE_FUN_DATA THEN Fail(ctx, "AssertionError")
        ELSE IF datum.exc # "" THEN Fail(ctx, datum.exc)
        ELSE Out(Cmd(ctx, address, "FUN", <<f.val, datum.val>>), None)

\* SyrPump.set_function; data = PNone when the argument is left out
SetFunction(ctx, address, function, data) ==
    SetFunctionCode(ctx, address, FromDictPVal(PHASE_FUNCTION, function), data)

\* the dict {value, volume_unit, time_unit} get_rate builds from the data
\* field of the reply c
RateIn(c, data) ==
    LET vu == PyAt(PyLast(data, 2), 0)
        tu == PyLast(data, 1)
        units == vu \in DOMAIN VOLUME_UNITS /\ tu \in DOMAIN TIME_UNITS
        text == IF units THEN PyDropLast(data, 2) ELSE data
    IN  IF Len(data) < 2 THEN Fail(c, "IndexError")
        ELSE IF ~IsFloatText(text) THEN Fail(c, "ValueError")
        ELSE IF units
            THEN Out(c, PDict(<< <<"value", ParseFloat(text)>>,
                                 <<"volume_unit", PStr(FromDictKey(VOLUME_UNITS, vu).val)>>,
                                 <<"time_unit", PStr(FromDictKey(TIME_UNITS, tu).val)>> >>))
        ELSE Out(c, PDict(<< <<"value", ParseFloat(text)>> >>))

RateOf(c) == IF c.exc # "" THEN Out(c, "") ELSE RateIn(c, c.res.data)

\* SyrPump.get_rate
GetRate(ctx, address) == RateOf(DataOf(Cmd(ctx, address, "RAT", <<>>)))

\* set_rate once the value has been encoded: v = [exc, val]
SetRateValue(ctx, address, v, volume_unit, time_unit) ==
    LET vu == FromDictPVal(VOLUME_UNITS, volume_unit)
        tu == FromDictPVal(TIME_UNITS, time_unit)
    IN  IF ctx.exc # "" THEN Out(ctx, None)
        ELSE IF v.exc # "" THEN Fail(ctx, v.exc)
        ELSE IF (volume_unit = PNone) # (time_unit = PNone) THEN Fail(ctx, "AssertionError")
        ELSE IF volume_unit = PNone THEN Out(Cmd(ctx, address, "RAT", <<v.val>>), None)
        ELSE IF vu.exc # "" THEN Fail(ctx, vu.exc)
        ELSE IF tu.exc # "" THEN Fail(ctx, tu.exc)
        ELSE Out(Cmd(ctx, address, "RAT", <<v.val, vu.val, tu.val>>), None)

\* SyrPump.set_rate; PNone for an argument left out
SetRate(ctx, address, value, volume_unit, time_unit) ==
    SetRateValue(ctx, address, Float(value, MAX_DIGITS, MAX_DECIMAL), volume_unit, time_unit)

\* the dict {volume, unit} get_volume builds from the data field of the reply c
VolumeIn(c, vol, unit) ==
    LET name == FromDictKey(VOLUME_UNITS, PyAt(unit, 0))
    IN  IF PyLast(unit, 1) # "L" THEN Fail(c, "AssertionError")
        ELSE IF ~IsFloatText(vol) THEN Fail(c, "ValueError")
        ELSE IF name.exc # "" THEN Fail(c, name.exc)
        ELSE Out(c, PDict(<< <<"volume", ParseFloat(vol)>>, <<"unit", PStr(name.val)>> >>))

VolumeOf(c) ==
    IF c.exc # "" THEN Out(c, "")
    ELSE VolumeIn(c, PyDropLast(c.res.data, 2), PyLast(c.res.data, 2))

\* SyrPump.get_volume
GetVolume(ctx, address) == VolumeOf(DataOf(Cmd(ctx, address, "VOL", <<>>)))

\* the second half of set_volume: the unit, after the value has been sent
SetVolumeUnit(c, address, unit) ==
    LET u == FromDictPVal(VOLUME_UNITS, unit)
    IN  IF unit = PNone \/ c.exc # "" THEN Out(c, None)
        ELSE IF u.exc # "" THEN Fail(c, u.exc)
        ELSE Out(Cmd(c, address, "VOL", <<u.val \o "L">>), None)

\* set_volume once the value has been encoded: v = [exc, val]
SetVolumeValue(ctx, address, value, v, unit) ==
    IF ctx.exc # "" THEN Out(ctx, None)
    ELSE IF value = PNone /\ unit = PNone THEN Fail(ctx, "AssertionError")
    ELSE IF value = PNone THEN SetVolumeUnit(ctx, address, unit)
    ELSE IF v.exc # "" THEN Fail(ctx, v.exc)
    ELSE SetVolumeUnit(Cmd(ctx, address, "VOL", <<v.val>>), address, unit)

\* SyrPump.set_volume; PNone for an argument left out
SetVolume(ctx, address, value, unit) ==
    SetVolumeValue(ctx, address, value, Float(value, MAX_DIGITS, MAX_DECIMAL), unit)

DirectionOf(c, name) ==
    IF c.exc # "" THEN Out(c, "")
    ELSE IF name.exc # "" THEN Fail(c, name.exc)
    ELSE Out(c, PStr(name.val))

DirectionIn(c) == DirectionOf(c, FromDictKey(PUMP_DIRECTION, c.res.data))

\* SyrPump.get_direction
GetDirection(ctx, address) == DirectionIn(DataOf(Cmd(ctx, address, "DIR", <<>>)))

\* set_direction once the direction has been looked up: d = [exc, val]
SetDirectionCode(ctx, address, d) ==
    IF ctx.exc # "" THEN Out(ctx, None)
    ELSE IF d.exc # "" THEN Fail(ctx, d.exc)
    ELSE Out(Cmd(ctx, address, "DIR", <<d.val>>), None)

\* SyrPump.set_direction
SetDirection(ctx, address, direction) ==
    SetDirectionCode(ctx, address, FromDictPVal(PUMP_DIRECTION, direction))

(***************************************************************************)
(* Program compiler (set_config), extractor and config merge (get_config). *)
(* A loop is a recursion that hands on the context (with the value built   *)
(* so far) and stops at the first exception.                               *)
(***************************************************************************)
\* c with the exception e raised
Raised(c, e) == [c EXCEPT !.exc = e]

\* getattr(self, f"set_{k}")(a, **p) for a dict p, else (a, p), for k one
\* of rate, volume, direction
SetRateParam(ctx, a, k, p) ==
    LET kw == p.t = "dict"
        Arg(name) == IF Has(p.items, name) THEN Get(p.items, name) ELSE PNone
        Accepts(names) == Keys(p.items) \subseteq names
    IN  IF k = "rate" THEN
            IF ~kw THEN SetRate(ctx, a, p, PNone, PNone)
            ELSE IF ~Accepts({"value", "volume_unit", "time_unit"}) \/ ~Has(p.items, "value")
                THEN Fail(ctx, "TypeError")
            ELSE SetRate(ctx, a, Arg("value"), Arg("volume_unit"), Arg("time_unit"))
        ELSE IF k = "volume" THEN
            IF ~kw THEN SetVolume(ctx, a, p, PNone)
            ELSE IF ~Accepts({"value", "unit"}) THEN Fail(ctx, "TypeError")
            ELSE SetVolume(ctx, a, Arg("value"), Arg("unit"))
        ELSE
            IF ~kw THEN SetDirection(ctx, a, p)
            ELSE IF ~Accepts({"direction"}) \/ ~Has(p.items, "direction")
                THEN Fail(ctx, "TypeError")
            ELSE SetDirection(ctx, a, Arg("direction"))

\* one turn of the loop over the fields of a rate-class step (lines 239-248)
SetFollowUp(ctx, a, k, k_code, p) ==
    IF k_code.exc # "" THEN Raised(ctx, k_code.exc)
    ELSE IF k_code.val = "FUN" \/ k_code.val \notin Range(RATE_PARAM) THEN ctx
    ELSE SetRateParam(ctx, a, k, p).ctx

\* the follow-ups sent in the order rate, volume, direction, whatever the
\* order of the fields
SetFollowUpsFixedOrder(ctx, a, func, i) ==
    LET Field(c, k) == IF Has(func, k) THEN SetRateParam(c, a, k, Get(func, k)).ctx ELSE c
        unknown == \E j \in DOMAIN func : FromDictValue(COMMAND, func[j][1]).exc # ""
    IN  IF ctx.exc # "" THEN ctx
        ELSE IF unknown THEN Raised(ctx, "AssertionError")
        ELSE Field(Field(Field(ctx, "rate"), "volume"), "direction")

\* for _k, _v in func.items(), from the i-th field on (lines 238-248)
RECURSIVE SetFollowUps(_, _, _, _)
SetFollowUps(ctx, a, func, i) ==
    IF ctx.exc # "" \/ i > Len(func) THEN ctx
    ELSE SetFollowUps(SetFollowUp(ctx, a, func[i][1], FromDictValue(COMMAND, func[i][1]),
                                  func[i][2]),
                      a, func, i + 1)

\* a step once its phase has been selected (context p): the function, with
\* the one datum of a step that is not rate-class, and the follow-ups of a
\* rate-class step (lines 229-248)
SetStepFunction(p, a, func) ==
    LET f == Get(func, "function")
        f_code == FromDictPVal(PHASE_FUNCTION, f)
        data == Without(func, "function")
        rate == f_code.val \in RATE_FUNCTION
    IN  IF p.exc # "" THEN p
        ELSE IF ~Has(func, "function") THEN Raised(p, "KeyError")
        ELSE IF f_code.exc # "" THEN Raised(p, f_code.exc)
        ELSE IF ~rate /\ Len(data) > 1 THEN Raised(p, "AssertionError")
        ELSE IF ~rate
            THEN SetFunction(p, a, f, IF data = <<>> THEN PNone ELSE data[1][2]).ctx
        ELSE SetFollowUps(SetFunction(p, a, f, PNone).ctx, a, func, 1)

\* one turn of the loop over the steps: step func (the pairs of a dict) is
\* written to phase `phase` of pump a (lines 226-248)
SetStep(ctx, a, phase, func) ==
    SetStepFunction(SetPhase(ctx, a, phase).ctx, a, func)

\* for i, func in enumerate(v), from the i-th step on; v is a list of dicts
RECURSIVE SetSteps(_, _, _, _)
SetSteps(ctx, a, v, i) ==
    IF ctx.exc # "" \/ i > Len(v) THEN ctx
    ELSE SetSteps(SetStep(ctx, a, i, v[i].items), a, v, i + 1)

\* one turn of the loop over the keys of a config item (lines 221-264); of
\* the parameters set through their own setter only the trigger is modelled
SetParam(ctx, a, k, k_code, v) ==
    IF k = "address" THEN ctx
    ELSE IF k_code.exc # "" THEN Raised(ctx, k_code.exc)
    ELSE IF k_code.val = "FUN" THEN SetSteps(ctx, a, v.items, 1)
    ELSE IF k_code.val \notin Range(SET_CMD) THEN Raised(ctx, "ValueError")
    ELSE IF k_code.val \in Range(RATE_PARAM) \cup {"PHN"} THEN ctx
    ELSE IF k_code.val = "TRG"
        THEN SetTrigger(ctx, a, IF v.t = "str" THEN v.s ELSE "", None, None).ctx
    ELSE Raised(ctx, "NotModelled")

\* for k, v in item.items(), from the i-th pair on
RECURSIVE SetParams(_, _, _, _)
SetParams(ctx, a, item, i) ==
    IF ctx.exc # "" \/ i > Len(item) THEN ctx
    ELSE SetParams(SetParam(ctx, a, item[i][1],
                            FromDictValue(COMMAND, Replace(item[i][1], "_", " ")),
                            item[i][2]),
                   a, item, i + 1)

\* for a in addr, from the j-th address on
RECURSIVE SetAddrs(_, _, _, _)
SetAddrs(ctx, addr, item, j) ==
    IF ctx.exc # "" \/ j > Len(addr) THEN ctx
    ELSE SetAddrs(SetParams(ctx, addr[j], item, 1), addr, item, j + 1)

\* the item written to every address the scan `all` has found
SetAll(all, item) ==
    IF all.ctx.exc # "" THEN all.ctx ELSE SetAddrs(all.ctx, all.val, item, 1)

\* one turn of the loop over the items of a config (lines 211-264)
SetItem(ctx, item) ==
    LET addr == Get(item, "address")
    IN  IF ~Has(item, "address") THEN Raised(ctx, "KeyError")
        ELSE IF addr.t = "int" THEN SetAddrs(ctx, <<addr.ip>>, item, 1)
        ELSE IF addr = PStr("all") THEN SetAll(GetAvailAddress(ctx), item)
        ELSE IF addr.t = "list"
            THEN SetAddrs(ctx, [j \in DOMAIN addr.items |-> addr.items[j].ip], item, 1)
        ELSE Raised(ctx, "ValueError")

\* for item in config, from the n-th item on; config is a list of dicts
RECURSIVE SetItems(_, _, _)
SetItems(ctx, config, n) ==
    IF ctx.exc # "" \/ n > Len(config) THEN ctx
    ELSE SetItems(SetItem(ctx, config[n].items), config, n + 1)

\* SyrPump.set_config on a config given as a list
SetConfig(ctx, config) == Out(SetItems(ctx, config.items, 1), None)

\* r[k] = g of the dict r read so far, g the result of the getter of k
AddField(r, k, g) == Out(g.ctx, PDict(Append(r.val.items, <<k, g.val>>)))

AddRate(r, a) == IF r.ctx.exc # "" THEN r ELSE AddField(r, "rate", GetRate(r.ctx, a))

AddVolume(r, a) == IF r.ctx.exc # "" THEN r ELSE AddField(r, "volume", GetVolume(r.ctx, a))

AddDirection(r, a) ==
    IF r.ctx.exc # "" THEN r ELSE AddField(r, "direction", GetDirection(r.ctx, a))

\* the three follow-up fields of a rate-class phase, added in the order of
\* RATE_PARAM (lines 297-299)
WithRateParams(r, a) ==
    IF r.ctx.exc # "" THEN r
    ELSE IF Get(r.val.items, "function").s \notin RATE_FUNCTION THEN r
    ELSE AddDirection(AddVolume(AddRate(r, a), a), a)

\* one turn of the sweep: phase `phase` of pump a is selected and read
\* (lines 294-300)
PhaseRead(ctx, a, phase) ==
    WithRateParams(GetFunction(SetPhase(ctx, a, phase).ctx, a, TRUE), a)

\* the list of the one phase read
Single(r) == [ctx |-> r.ctx, val |-> IF r.ctx.exc # "" THEN <<>> ELSE <<r.val>>]

\* the phases of the first half followed by those of the second
Joined(first, second) == [ctx |-> second.ctx, val |-> first.val \o second.val]

\* for phase in range(lo, hi + 1): the phases read, in order
RECURSIVE Sweep(_, _, _, _)
Sweep(ctx, a, lo, hi) ==
    IF lo = hi THEN Single(PhaseRead(ctx, a, lo))
    ELSE LET first == Sweep(ctx, a, lo, (lo + hi) \div 2)
         IN  IF first.ctx.exc # "" THEN first
             ELSE Joined(first, Sweep(first.ctx, a, (lo + hi) \div 2 + 1, hi))

\* the sweep's result returned as it is, stop phases included
KeepStops(prog) == Ok(prog)

\* every stop phase removed, wherever it stands
StripEveryStop(prog) ==
    IF \A i \in DOMAIN prog : Get(prog[i].items, "function").s = "STP"
        THEN Raise("IndexError")
    ELSE Ok(SelectSeq(prog, LAMBDA phase : Get(phase.items, "function").s # "STP"))

\* while prog[-1]['function'] == 'STP': prog.pop(-1)
RECURSIVE StripStops(_)
StripStops(prog) ==
    IF prog = <<>> THEN Raise("IndexError")
    ELSE IF Get(prog[Len(prog)].items, "function").s = "STP"
        THEN StripStops(SubSeq(prog, 1, Len(prog) - 1))
    ELSE Ok(prog)

\* phase['function'] = self.PHASE_FUNCTION[phase['function']]
Named(phase) ==
    PDict(Put(phase.items, "function",
              PStr(Head(PHASE_FUNCTION[Get(phase.items, "function").s]))))

\* the program kept of the phases read (lines 301-306)
ProgramKept(prog, kept) ==
    IF prog.ctx.exc # "" THEN Out(prog.ctx, "")
    ELSE IF kept.exc # "" THEN Fail(prog.ctx, kept.exc)
    ELSE Out(prog.ctx, PList([i \in DOMAIN kept.val |-> Named(kept.val[i])]))

ProgramOf(prog) == ProgramKept(prog, StripStops(prog.val))

\* the program of pump a: sweep, strip, function codes to names
GetProgram(ctx, a) ==
    ProgramOf(Sweep(ctx, a, DATA_RANGE["phase"][1], DATA_RANGE["phase"][2]))

\* c[key] = g of the dict c read so far, g the result of a getter
PutIn(o, key, g) == Out(g.ctx, Put(o.val, key, g.val))

\* the dict {start, stop} get_trigger returns
TriggerDict(g) ==
    Out(g.ctx, PDict(<< <<"start", PStr(g.val.start)>>, <<"stop", PStr(g.val.stop)>> >>))

\* one turn of the loop over the parameters: the dict c of pump a filled in
\* (lines 289-319); of the parameters read through their own getter only the
\* trigger is modelled
GetParam(o, a, p, p_code) ==
    IF p_code.exc # "" THEN Fail(o.ctx, p_code.exc)
    ELSE IF p_code.val = "FUN" THEN PutIn(o, Replace(p, " ", "_"), GetProgram(o.ctx, a))
    ELSE IF p_code.val \notin Range(GET_CMD) THEN Fail(o.ctx, "ValueError")
    ELSE IF p_code.val \in Range(RATE_PARAM) \cup {"PHN"} THEN o
    ELSE IF p_code.val = "TRG"
        THEN PutIn(o, Replace(p, " ", "_"), TriggerDict(GetTrigger(o.ctx, a, "start stop")))
    ELSE Fail(o.ctx, "NotModelled")

\* for p in param, from the i-th on
RECURSIVE GetParams(_, _, _, _)
GetParams(o, a, param, i) ==
    IF o.ctx.exc # "" \/ i > Len(param) THEN o
    ELSE GetParams(GetParam(o, a, param[i], FromDictValue(COMMAND, param[i])),
                   a, param, i + 1)

\* config.append(c)
AppendConfig(o, c) ==
    IF c.ctx.exc # "" THEN Out(c.ctx, "") ELSE Out(c.ctx, Append(o.val, PDict(c.val)))

\* for a in address, from the j-th on: the list of the dicts read so far
RECURSIVE GetAddrs(_, _, _, _)
GetAddrs(o, address, param, j) ==
    IF o.ctx.exc # "" \/ j > Len(address) THEN o
    ELSE GetAddrs(AppendConfig(o, GetParams(Out(o.ctx, << <<"address", PInt(address[j])>> >>),
                                            address[j], param, 1)),
                  address, param, j + 1)

\* every config kept as a record of its own
MergeNothing(merged, c) ==
    Append(merged, PDict(Put(c.items, "address", PList(<<Get(c.items, "address")>>))))

\* one turn of the merge loop (lines 323-336): c joins the first record that
\* equals it but for the address, else it becomes a new record
Merge(merged, c) ==
    LET Rest(x) == PDict(Without(x.items, "address"))
        hits == {i \in DOMAIN merged : PyEq(Rest(c), Rest(merged[i]))}
        i == CHOOSE h \in hits : \A g \in hits : h <= g
        joined == Append(Get(merged[i].items, "address").items, Get(c.items, "address"))
    IN  IF hits = {}
            THEN Append(merged, PDict(Put(c.items, "address",
                                          PList(<<Get(c.items, "address")>>))))
        ELSE [merged EXCEPT ![i] = PDict(Put(@.items, "address", PList(joined)))]

\* for c in config, from the n-th on
RECURSIVE Combine(_, _, _)
Combine(merged, config, n) ==
    IF n > Len(config) THEN merged
    ELSE Combine(Merge(merged, config[n]), config, n + 1)

\* the configs of all the addresses: `all` is the list of addresses
AllRead(all, param) ==
    IF all.ctx.exc # "" THEN Out(all.ctx, "")
    ELSE GetAddrs(Out(all.ctx, <<>>), all.val, param, 1)

\* the value get_config returns (lines 321-341, save_to = None)
ConfigOf(config, combine) ==
    IF config.ctx.exc # "" THEN Out(config.ctx, "")
    ELSE IF combine THEN Out(config.ctx, PList(Combine(<<>>, config.val, 1)))
    ELSE Out(config.ctx, PList(config.val))

\* SyrPump.get_config with save_to=None: address is a non-empty list of
\* addresses, or <<>> for None; param a list of parameter names
GetConfig(ctx, address, param, combine) ==
    ConfigOf(AllRead(IF address = <<>> THEN GetAvailAddress(ctx) ELSE Out(ctx, address),
                     param),
             combine)

(***************************************************************************)
(* Setters of one pump's settings.                                         *)
(***************************************************************************)
\* set_diameter once the diameter has been encoded: v = [exc, val]
SetDiameterValue(ctx, address, v) ==
    IF ctx.exc # "" THEN Out(ctx, None)
    ELSE IF v.exc # "" THEN Fail(ctx, v.exc)
    ELSE Out(Cmd(ctx, address, "DIA", <<v.val>>), None)

\* SyrPump.set_diameter
SetDiameter(ctx, address, diameter) ==
    SetDiameterValue(ctx, address, Float(diameter, MAX_DIGITS, MAX_DECIMAL))

\* SyrPump.set_com_mode; timeout = PNone when the argument is left out
SetComMode(ctx, address, mode, t) ==
    IF ctx.exc # "" THEN Out(ctx, None)
    ELSE IF mode = PStr("basic")
        THEN IF t # PNone THEN Fail(ctx, "AssertionError")
             ELSE Out(Cmd(ctx, address, "SAF", <<"0">>), None)
    ELSE IF mode = PStr("safe")
        THEN IF t = PNone THEN Fail(ctx, "AssertionError")
             ELSE Out(Cmd(ctx, address, "SAF", <<ArgText(t)>>), None)
    ELSE Out(Cmd(ctx, address, "SAF", <<>>), None)

TTL_OUTPUT_PIN == <<5>>

\* SyrPump.set_ttl_output, for an int level
SetTtlOutput(ctx, address, level, pin) ==
    IF ctx.exc # "" THEN Out(ctx, None)
    ELSE IF pin \notin Range(TTL_OUTPUT_PIN) THEN Fail(ctx, "AssertionError")
    ELSE IF CheckRange(level, "ttl").exc # "" THEN Fail(ctx, "AssertionError")
    ELSE Out(Cmd(ctx, address, "OUT", <<IntStr(pin), IntStr(level)>>), None)

(***************************************************************************)
(* State machine: each action is one call of a public or private method,   *)
(* run to its return or to the exception it raises.                        *)
(***************************************************************************)
NoCall == [op |-> "", arg |-> <<>>, exc |-> "", val |-> ""]

\* the driver after construction on a bus where the pumps of b answer
Start(b, t) ==
    /\ timeout = t
    /\ bus = b
    /\ dev = [a \in Bus |-> FactoryPump]
    /\ wire = <<>>
    /\ ret = NoCall
    /\ rx = <<>>
    /\ calls = <<>>

\* the caller holds no result: the next method can be called
Idle == ret.op = ""

\* a method called by an idle caller has run to its end o = [ctx, val]
Return(op, arg, o) ==
    /\ Idle
    /\ dev' = o.ctx.dev
    /\ timeout' = o.ctx.timeout
    /\ wire' = o.ctx.wire
    /\ ret' = [op |-> op, arg |-> arg, exc |-> o.ctx.exc, val |-> o.val]
    /\ UNCHANGED <<bus, rx, calls>>

\* a pure lookup called by an idle caller has returned r = [exc, val]
Looked(op, arg, r) ==
    /\ Idle
    /\ ret' = [op |-> op, arg |-> arg, exc |-> r.exc, val |-> r.val]
    /\ UNCHANGED <<timeout, bus, dev, wire, rx, calls>>

\* the caller has taken the result (or caught the exception) of its call;
\* a call blocked in a read without timeout never comes back
Resume ==
    /\ ~Idle
    /\ ret.exc # "Blocked"
    /\ ret' = NoCall
    /\ wire' = <<>>
    /\ UNCHANGED <<timeout, bus, dev, rx, calls>>

\* ---- frame decode and symbol lookups on chosen inputs -------------------
Tables ==
    [PUMP_DIRECTION |-> PUMP_DIRECTION, VOLUME_UNITS |-> VOLUME_UNITS,
     TIME_UNITS |-> TIME_UNITS, TRIGGER |-> TRIGGER,
     TRIGGER_SETUP |-> TRIGGER_SETUP, PHASE_FUNCTION |-> PHASE_FUNCTION,
     COMMAND |-> COMMAND]

\* every name and alias a table stores
NamesOf(d) == UNION {Range(d[k]) : k \in DOMAIN d}

\* received byte strings: framed payloads put together from an address, a
\* status and a data field, and unframed ones
FrameAddrs == {"02", "05", "17", "5", "x1"}

FrameStatus == (DOMAIN PROMPT) \cup {"A?R", "A?S", "A?X", "A!S", "A?", "A", "?", "X", ""}

FrameData == {"", "?", "?NA", "?OOR", "?COM", "?IGN", "?XYZ", "1.500", "JMP05"}

Payloads == {a \o st \o da : a \in FrameAddrs, st \in FrameStatus, da \in FrameData}

Receives == {STX \o p \o ETX : p \in Payloads} \cup {"", "02S", STX \o "02S"}

CmdAddrs == {2, 5, 100}

CmdReceive ==
    \E a \in CmdAddrs, receive \in Receives :
        LET t == [dev |-> dev, receive |-> receive, blocked |-> FALSE]
            c == CmdWith(Ctx(dev, timeout), a, "", <<>>, t)
        IN  Return("_cmd", <<a, receive>>, Out(c, c.res))

LookupKey ==
    \E n \in DOMAIN Tables :
        \E k \in (DOMAIN Tables[n]) \cup {"", "ZZ"} :
            Looked("_from_dict_key", <<n, k>>, FromDictKey(Tables[n], k))

LookupValue ==
    \E n \in DOMAIN Tables :
        \E v \in NamesOf(Tables[n]) \cup {"", "no such name"} :
            Looked("_from_dict_value", <<n, v>>, FromDictValue(Tables[n], v))

InitCodec == Start({}, "set")

NextCodec == CmdReceive \/ LookupKey \/ LookupValue \/ Resume

SpecCodec == InitCodec /\ [][NextCodec]_vars

\* ---- trigger setup of one pump -----------------------------------------
EdgeNames == NamesOf(TRIGGER) \cup {None, "sideways"}

SetupNames == {None, "foot switch", "level", "no such setup"}

RetTypes == {"code", "name", "start stop", "start stop code", "bogus"}

SetTriggerCall ==
    \E a \in Bus, t \in SetupNames, s \in EdgeNames, p \in EdgeNames :
        Return("set_trigger", <<a, t, s, p>>, SetTrigger(Ctx(dev, timeout), a, t, s, p))

GetTriggerCall ==
    \E a \in Bus, rt \in RetTypes :
        Return("get_trigger", <<a, rt>>, GetTrigger(Ctx(dev, timeout), a, rt))

InitTrigger == Start({Wired[1]}, "set")

NextTrigger == SetTriggerCall \/ GetTriggerCall \/ Resume

SpecTrigger == InitTrigger /\ [][NextTrigger]_vars

\* ---- calibration and scan on a bus with some pumps ----------------------
GetStatusCall ==
    \E a \in Bus \cup {0}, code \in BOOLEAN :
        Return("get_status", <<a, code>>, GetStatus(Ctx(dev, timeout), a, code))

SetTimeoutCall ==
    \E address \in {<<>>} \cup {<<a>> : a \in Bus} :
        Return("set_timeout", address, SetTimeout(Ctx(dev, timeout), address))

GetAvailAddressCall ==
    Return("get_avail_address", <<timeout>>, GetAvailAddress(Ctx(dev, timeout)))

\* a pump on the bus has been power cycled: it has the alarm R to report
PowerCycle ==
    \E a \in bus :
        /\ Idle
        /\ dev[a].alarm = ""
        /\ dev' = [dev EXCEPT ![a].alarm = "R"]
        /\ UNCHANGED <<timeout, bus, wire, ret, rx, calls>>

\* the instance is constructed with timeout=None or with the default timeout
InitScan == \E b \in SUBSET Bus, t \in {"None", "default"} : Start(b, t)

NextScan ==
    GetStatusCall \/ SetTimeoutCall \/ GetAvailAddressCall \/ PowerCycle \/ Resume

SpecScan == InitScan /\ [][NextScan]_vars

\* ---- program compiler: set_config on pumps in their factory state -------
MaxProg == 2

Step(pairs) == PDict(pairs)

Fun(name) == <<"function", PStr(name)>>

VolumeDict == PDict(<< <<"value", PFloat(1, "5")>>, <<"unit", PStr("ml")>> >>)

\* steps given to the compiler: well-formed ones, a rate step listing its
\* fields in another order, and steps with a second datum or an unknown
\* field
StepStop == Step(<<Fun("stop")>>)

StepJump == Step(<<Fun("jump"), <<"phase", PInt(1)>> >>)

StepRate ==
    Step(<<Fun("rate"), <<"rate", PInt(5)>>, <<"volume", VolumeDict>>,
           <<"direction", PStr("withdraw")>> >>)

StepRateReordered ==
    Step(<< <<"direction", PStr("withdraw")>>, Fun("increment"),
            <<"volume", PFloat(2, "")>>, <<"rate", PInt(5)>> >>)

StepJumpTwoData == Step(<<Fun("jump"), <<"phase", PInt(1)>>, <<"count", PInt(2)>> >>)

StepJumpUnknown == Step(<<Fun("jump"), <<"foo", PInt(2)>> >>)

StepRateUnknown == Step(<<Fun("rate"), <<"rate", PInt(5)>>, <<"foo", PInt(1)>> >>)

StepInputs ==
    {StepStop, StepJump, StepRate, StepRateReordered,
     StepJumpTwoData, StepJumpUnknown, StepRateUnknown}

\* the lists of 1..n elements of S
Lists(S, n) == UNION {[1..k -> S] : k \in 1..n}

\* the config [{address: address, function: prog}]
ProgramConfig(address, prog) ==
    PList(<<PDict(<< <<"address", address>>, <<"function", PList(prog)>> >>)>>)

AddressInputs == {PInt(Wired[1]), PList(<<PInt(Wired[2]), PInt(Wired[1])>>)}

Factory == [a \in Bus |-> FactoryPump]

\* set_config called once, on pumps that hold no program yet
SetConfigCall ==
    \E address \in AddressInputs, prog \in Lists(StepInputs, MaxProg) :
        /\ dev = Factory
        /\ Return("set_config", <<ProgramConfig(address, prog)>>,
                  SetConfig(Ctx(dev, timeout), ProgramConfig(address, prog)))

InitCompile == Start({Wired[1], Wired[2]}, "set")

NextCompile == SetConfigCall \/ Resume

SpecCompile == InitCompile /\ [][NextCompile]_vars

\* ---- program extractor and config merge: get_config on programmed pumps --
MaxSteps == 3

StoredSteps == {StepStop, StepJump, StepRate}

MergeBus == {Wired[1], Wired[2], Wired[3]}

\* one pump programmed with up to MaxSteps steps, or left as it is
OnePumpConfigs ==
    {PList(<<>>)} \cup {ProgramConfig(PInt(Wired[1]), prog) : prog \in Lists(StoredSteps, MaxSteps)}

\* the config item of one pump of MergeBus: a trigger setup and a 1-step program
MergeItem(a, trg, step) ==
    PDict(<< <<"address", PInt(a)>>, <<"trigger", PStr(trg)>>,
             <<"function", PList(<<step>>)>> >>)

MergeChoices == {"foot switch", "level"} \X {StepJump, StepRate}

MergeConfigs ==
    {PList(<<MergeItem(Wired[1], c[1][1], c[1][2]),
             MergeItem(Wired[2], c[2][1], c[2][2]),
             MergeItem(Wired[3], c[3][1], c[3][2])>>) : c \in [1..3 -> MergeChoices]}

\* the pumps are programmed once, from their factory state: one pump alone
\* on the bus, or the pumps of MergeBus
ProgramCall ==
    \E config \in (IF bus = MergeBus THEN MergeConfigs ELSE OnePumpConfigs) :
        /\ dev = Factory
        /\ Return("set_config", <<config>>, SetConfig(Ctx(dev, timeout), config))

InitExtract == \E b \in {{Wired[1]}, MergeBus} : Start(b, "set")

AddressLists == {<<Wired[1]>>, <<Wired[2], Wired[1]>>, <<Wired[1], Wired[2], Wired[3]>>}

ParamLists == {<<"function">>, <<"trigger">>, <<"trigger", "function">>, <<"function", "rate">>,
               <<"start program">>, <<"pressure">>}

GetConfigCall ==
    \E address \in AddressLists, param \in ParamLists, combine \in BOOLEAN :
        Return("get_config", <<address, param, combine>>,
               GetConfig(Ctx(dev, timeout), address, param, combine))

NextExtract == ProgramCall \/ GetConfigCall \/ Resume

SpecExtract == InitExtract /\ [][NextExtract]_vars

\* ---- program round trip: get_config, set_config of its result, get_config --
\* a method called on the result the caller holds has run to its end
\* o = [ctx, val]
Chained(op, arg, o) ==
    /\ dev' = o.ctx.dev
    /\ timeout' = o.ctx.timeout
    /\ wire' = o.ctx.wire
    /\ ret' = [op |-> op, arg |-> arg, exc |-> o.ctx.exc, val |-> o.val]
    /\ UNCHANGED <<bus, rx, calls>>

\* the caller holds the program get_config has returned for one address
ProgramHeld ==
    /\ ret.op = "get_config"
    /\ ret.exc = ""
    /\ Len(ret.arg[1]) = 1
    /\ ret.arg[2] = <<"function">>
    /\ ret.arg[3]

\* the caller passes the program it holds to set_config
FeedBackCall ==
    /\ ProgramHeld
    /\ Chained("set_config", <<ret.val>>, SetConfig(Ctx(dev, timeout), ret.val))

\* set_config has accepted a config in the shape get_config returns: its
\* one item has a list for its address
FedBack ==
    /\ ret.op = "set_config"
    /\ ret.exc = ""
    /\ Len(ret.arg[1].items) = 1
    /\ Get(ret.arg[1].items[1].items, "address").t = "list"

\* the address list of the one item of the config
ItemAddress(config) ==
    LET addr == Get(config.items[1].items, "address").items
    IN  [j \in DOMAIN addr |-> addr[j].ip]

\* the caller extracts the program again after it has fed it back
ExtractAgainCall ==
    /\ FedBack
    /\ Chained("get_config", <<ItemAddress(ret.arg[1]), <<"function">>, TRUE>>,
               GetConfig(Ctx(dev, timeout), ItemAddress(ret.arg[1]), <<"function">>, TRUE))

\* the caller extracts the program of the pump it has programmed
ExtractCall ==
    Return("get_config", <<<<Wired[1]>>, <<"function">>, TRUE>>,
           GetConfig(Ctx(dev, timeout), <<Wired[1]>>, <<"function">>, TRUE))

InitRoundTrip == Start({Wired[1]}, "set")

NextRoundTrip ==
    ProgramCall \/ ExtractCall \/ FeedBackCall \/ ExtractAgainCall \/ Resume

SpecRoundTrip == InitRoundTrip /\ [][NextRoundTrip]_vars

\* ---- numeric encoder on chosen numbers -------------------------------------
\* integer parts below, at and above the limits of two and of four digits
IntegerParts == {0, 1, 3, 9, 12, 99, 100, 123, 999, 1000, 1234, 9999, 10000}

\* fractional digits: none, short ones, and ones longer than max_decimal (a
\* tie of the rounding among them is a binary fraction, which the float holds
\* exactly)
FractionParts == {"", "5", "25", "75", "0625", "14159", "4567", "9996", "96"}

FloatInputs ==
    {PInt(i) : i \in IntegerParts \cup {-1}}
        \cup {PFloat(i, fr) : i \in IntegerParts, fr \in FractionParts}
        \cup {PStr("1.5"), PNone}

\* the (max_digits, max_decimal) of the calls: the default and the pause's
FloatFormats == {<<MAX_DIGITS, MAX_DECIMAL>>, <<2, 1>>}

FloatCall ==
    \E f \in FloatInputs, m \in FloatFormats :
        Looked("_float", <<f, m[1], m[2]>>, Float(f, m[1], m[2]))

InitFloat == Start({}, "set")

NextFloat == FloatCall \/ Resume

SpecFloat == InitFloat /\ [][NextFloat]_vars

\* ---- setters of one pump on chosen arguments -------------------------------
\* the pump at Wired[1] answers, the address Wired[2] is silent, and two
\* addresses are outside the address range
SetterAddrs == {Wired[1], Wired[2], -1, 100}

\* numbers inside, at the edges of, and outside the magnitudes of two and of
\* four digits
Magnitudes ==
    {PInt(-1), PInt(0), PInt(5), PFloat(1, "5"), PFloat(99, "96"), PInt(100),
     PFloat(123, "4567"), PInt(9999), PFloat(9999, "5"), PInt(10000)}

\* inline data around the edges of the phase, count, number and ttl ranges
FunctionData ==
    {PNone, PStr("trigger"), PInt(-1), PInt(0), PInt(1), PInt(2), PInt(41),
     PInt(42), PInt(99), PInt(100), PFloat(1, "5"), PFloat(99, "96"),
     PFloat(0, "04"), PFloat(0, "5"), PFloat(9, "96"), PFloat(20, "")}

FunctionNames ==
    {PStr(n) : n \in {"rate", "stop", "jump", "loop for", "pause", "if",
                      "event trap", "output", "no such function"}}

RateUnits == {<<PNone, PNone>>, <<PStr("ml"), PStr("hr")>>, <<PStr("ul"), PNone>>}

\* the pumps a setter is called on: as constructed, or with the rate function
\* in phase 1 (the rate, volume and direction commands need it)
SetterStarts ==
    {[a \in Bus |-> [FactoryPump EXCEPT !.prog[1].f = f]] : f \in {"STP", "RAT"}}

SetDiameterCall ==
    \E a \in SetterAddrs, v \in Magnitudes :
        /\ dev \in SetterStarts
        /\ Return("set_diameter", <<a, v>>, SetDiameter(Ctx(dev, timeout), a, v))

SetRateCall ==
    \E a \in SetterAddrs, v \in Magnitudes, u \in RateUnits :
        /\ dev \in SetterStarts
        /\ Return("set_rate", <<a, v, u[1], u[2]>>,
                  SetRate(Ctx(dev, timeout), a, v, u[1], u[2]))

SetVolumeCall ==
    \E a \in SetterAddrs, v \in Magnitudes \cup {PNone},
       u \in {PNone, PStr("ml"), PStr("gallon")} :
        /\ dev \in SetterStarts
        /\ Return("set_volume", <<a, v, u>>, SetVolume(Ctx(dev, timeout), a, v, u))

SetFunctionCall ==
    \E a \in SetterAddrs, f \in FunctionNames, d \in FunctionData :
        /\ dev \in SetterStarts
        /\ Return("set_function", <<a, f, d>>, SetFunction(Ctx(dev, timeout), a, f, d))

SetPhaseCall ==
    \E a \in SetterAddrs, p \in {0, 1, 2, 41, 42} :
        /\ dev \in SetterStarts
        /\ Return("set_phase", <<a, p>>, SetPhase(Ctx(dev, timeout), a, p))

SetComModeCall ==
    \E a \in SetterAddrs, m \in {PStr("basic"), PStr("safe"), PStr("fast")},
       t \in {PNone, PInt(-1), PInt(0), PInt(255), PInt(256)} :
        /\ dev \in SetterStarts
        /\ Return("set_com_mode", <<a, m, t>>, SetComMode(Ctx(dev, timeout), a, m, t))

SetTtlOutputCall ==
    \E a \in SetterAddrs, l \in {-1, 0, 1, 2}, pin \in {5, 2} :
        /\ dev \in SetterStarts
        /\ Return("set_ttl_output", <<a, l, pin>>,
                  SetTtlOutput(Ctx(dev, timeout), a, l, pin))

InitSetters ==
    /\ timeout = "set"
    /\ bus = {Wired[1]}
    /\ dev \in SetterStarts
    /\ wire = <<>>
    /\ ret = NoCall
    /\ rx = <<>>
    /\ calls = <<>>

NextSetters ==
    \/ SetDiameterCall \/ SetRateCall \/ SetVolumeCall \/ SetFunctionCall
    \/ SetPhaseCall \/ SetComModeCall \/ SetTtlOutputCall \/ GetStatusCall
    \/ Resume

SpecSetters == InitSetters /\ [][NextSetters]_vars

\* ---- callers sharing one instance ------------------------------------------
\* Each caller runs a status query, _cmd(a), on the same SyrPump from a
\* thread of its own. _raw_cmd holds no lock: between its serial.write and
\* its serial.read_until any other caller's write or read can run.
MaxCallers == 2

Callers == 1..MaxCallers

\* a caller outside _raw_cmd, with no result
Waiting == [pc |-> "idle", addr |-> 0, exc |-> "", res |-> NoResponse]

\* the addresses queried: two pumps that answer and a silent address
SharedAddrs == {Wired[1], Wired[2], Wired[3]}

\* serial.write of _raw_cmd by the caller c: the command goes out, and the
\* pump addressed, if there is one, sends its frame to the port
RawWrite(c) ==
    \E a \in SharedAddrs :
        LET t == Transport(dev, timeout, a, "", <<>>)
        IN  /\ calls[c].pc = "idle"
            /\ wire' = <<CmdText(a, "", <<>>) \o CRLF>>
            /\ dev' = t.dev
            /\ rx' = IF t.receive = "" THEN rx ELSE Append(rx, t.receive)
            /\ calls' = [calls EXCEPT ![c] = [Waiting EXCEPT !.pc = "read", !.addr = a]]
            /\ UNCHANGED <<timeout, bus, ret>>

\* the outcome of _cmd for the caller at address a when read_until has
\* returned receive
CallRead(a, receive, raw) ==
    LET r == IF raw.exc # "" THEN raw ELSE CmdDecode(raw.val)
    IN  [pc |-> "done", addr |-> a, exc |-> r.exc,
         res |-> IF r.exc # "" THEN NoResponse ELSE r.val]

\* serial.read_until of _raw_cmd by the caller c, and the rest of _cmd: the
\* read takes the first frame the port holds, whoever it answers; with no
\* frame it ends by the timeout
RawRead(c) ==
    LET receive == IF rx = <<>> THEN "" ELSE Head(rx)
    IN  /\ calls[c].pc = "read"
        /\ calls' = [calls EXCEPT
                        ![c] = CallRead(@.addr, receive, RawCmd(timeout, receive))]
        /\ rx' = IF rx = <<>> THEN rx ELSE Tail(rx)
        /\ UNCHANGED <<timeout, bus, dev, wire, ret>>

\* the caller c has taken the result of its call
Taken(c) ==
    /\ calls[c].pc = "done"
    /\ calls' = [calls EXCEPT ![c] = Waiting]
    /\ UNCHANGED <<timeout, bus, dev, wire, ret, rx>>

InitShared ==
    /\ timeout = "set"
    /\ bus = {Wired[1], Wired[2]}
    /\ dev = [a \in Bus |-> FactoryPump]
    /\ wire = <<>>
    /\ ret = NoCall
    /\ rx = <<>>
    /\ calls = [c \in Callers |-> Waiting]

NextShared == \E c \in Callers : RawWrite(c) \/ RawRead(c) \/ Taken(c)

SpecShared == InitShared /\ [][NextShared]_vars

\* ---- function of the selected phase, written and read back -----------------
GetFunctionCall ==
    \E code \in BOOLEAN :
        Return("get_function", <<Wired[1], code>>,
               GetFunction(Ctx(dev, timeout), Wired[1], code))

InitFunction == Start({Wired[1]}, "set")

NextFunction == SetFunctionCall \/ GetFunctionCall \/ Resume

SpecFunction == InitFunction /\ [][NextFunction]_vars

\* ---- replies that reach the port late --------------------------------------
\* A pump may answer after the read of its command has timed out: its frame
\* then waits in the port (rx), where the read of the next command finds it
\* first. _raw_cmd does not empty the port before it writes.
\* the frames the read of a command to address a finds, in order: those
\* waiting in the port, then the reply of the pump at a if it answers in time
FramesFor(waiting, a, intime) ==
    waiting \o (IF a \in bus /\ intime THEN <<Frame(a, "", "")>> ELSE <<>>)

\* the frames left in the port after that read, a late reply included
FramesLeft(waiting, a, intime) ==
    (IF FramesFor(waiting, a, intime) = <<>> THEN <<>>
     ELSE Tail(FramesFor(waiting, a, intime)))
        \o (IF a \in bus /\ ~intime THEN <<Frame(a, "", "")>> ELSE <<>>)

\* what read_until returns: the first frame, or nothing at the timeout
Received(frames) == IF frames = <<>> THEN "" ELSE Head(frames)

\* _cmd(a) sent as a status query when frames are what the read finds
CmdOn(ctx, a, frames) ==
    CmdWith(ctx, a, "", <<>>,
            [dev |-> ctx.dev, receive |-> Received(frames), blocked |-> FALSE])

\* the addresses queried: two that may hold a pump and one that never does
LateAddrs == {Wired[1], Wired[1] + 1, Wired[2]}

\* one status query _cmd(a); the pump at a answers in time or late
CmdLateCall ==
    \E a \in LateAddrs, intime \in BOOLEAN :
        LET c == CmdOn(Ctx(dev, timeout), a, FramesFor(rx, a, intime))
        IN  /\ Idle
            /\ ret' = [op |-> "_cmd", arg |-> <<a, Received(FramesFor(rx, a, intime))>>,
                       exc |-> c.exc, val |-> IF c.exc # "" THEN "" ELSE c.res]
            /\ wire' = c.wire
            /\ rx' = FramesLeft(rx, a, intime)
            /\ UNCHANGED <<timeout, bus, dev, calls>>

\* one turn of the loop of get_avail_address with the pumps of late
\* answering late: s = [ctx, rx, val] is the call so far
ProbeOn(s, a, c, left) ==
    IF c.exc = "TimeoutError" THEN [ctx |-> [c EXCEPT !.exc = ""], rx |-> left, val |-> s.val]
    ELSE IF c.exc # "" THEN [ctx |-> c, rx |-> left, val |-> s.val]
    ELSE [ctx |-> c, rx |-> left, val |-> Append(s.val, a)]

ProbeLate(s, a, late) ==
    IF s.ctx.exc # "" THEN s
    ELSE ProbeOn(s, a, CmdOn(s.ctx, a, FramesFor(s.rx, a, a \notin late)),
                 FramesLeft(s.rx, a, a \notin late))

\* the loop over lo..hi in ascending order, evaluated by halves
RECURSIVE ProbeAllLate(_, _, _, _)
ProbeAllLate(s, lo, hi, late) ==
    IF lo = hi THEN ProbeLate(s, lo, late)
    ELSE LET mid == (lo + hi) \div 2
             first == ProbeAllLate(s, lo, mid, late)
         IN  IF first.ctx.exc # "" THEN first ELSE ProbeAllLate(first, mid + 1, hi, late)

\* the end of a scan s = [ctx, rx, val]
ScanDone(s) ==
    /\ Idle
    /\ ret' = [op |-> "get_avail_address", arg |-> <<timeout>>, exc |-> s.ctx.exc,
               val |-> IF s.ctx.exc # "" THEN "" ELSE s.val]
    /\ wire' = s.ctx.wire
    /\ rx' = s.rx
    /\ UNCHANGED <<timeout, bus, dev, calls>>

\* get_avail_address with a timeout set, the pumps of late answering late
ScanLateCall ==
    \E late \in SUBSET bus :
        ScanDone(ProbeAllLate([ctx |-> Ctx(dev, timeout), rx |-> rx, val |-> <<>>],
                               AddressMin, AddressMax, late))

InitLate == \E b \in SUBSET Bus : Start(b, "set")

NextLate == CmdLateCall \/ ScanLateCall \/ Resume

SpecLate == InitLate /\ [][NextLate]_vars

(***************************************************************************)
(* Properties                                                              *)
(***************************************************************************)
Framed(payload) == STX \o payload \o ETX

\* the last call was _cmd to an address in range and the transport handed
\* back the framed payload
DecodeOf(payload) ==
    /\ ret.op = "_cmd"
    /\ ret.arg[1] \in DATA_RANGE["address"][1]..DATA_RANGE["address"][2]
    /\ ret.arg[2] = Framed(payload)

\* C1 (as stated): frame decode of the stripped payload 02?OOR raises
\* DataOutOfRange.
C1_DecodeRaisesOutOfRange == DecodeOf("02?OOR") => ret.exc = "DataOutOfRange"

\* C1 (amended): the payload 02?OOR has no status character before the error
\* token and is rejected as an unknown status (ValueError); with a status
\* before the token, 02S?OOR, the decode raises DataOutOfRange.
C1_StatusThenToken ==
    /\ DecodeOf("02?OOR") => ret.exc = "ValueError"
    /\ DecodeOf("02S?OOR") => ret.exc = "DataOutOfRange"

C1_Witness == DecodeOf("02?OOR") /\ ret.exc = "ValueError"

\* the status texts of a well-formed reply: a prompt letter, or A ? and a
\* known alarm code
ValidStatus == (DOMAIN PROMPT) \cup {"A?" \o k : k \in DOMAIN ALARM}

\* C2: a framed reply with a valid status whose data field starts with ? makes
\* the command raise the error kind of the token after the ?, and no Response
\* is returned.
C2_ErrorTokenRaises ==
    \A a \in {"02", "05", "17"}, st \in ValidStatus, tok \in DOMAIN ERROR :
        DecodeOf(a \o st \o "?" \o tok) => ret.exc = ERROR[tok][1]

C2_Witness == DecodeOf("05A?S?OOR") /\ ret.exc = "DataOutOfRange"

\* C10: in every symbol table, encoding the decoded name of a code gives the
\* code back; every stored name or alias encodes to the one code it is stored
\* under, and decoding that code gives the code's first name.
C10_RegistryRoundTrip ==
    /\ (ret.op = "_from_dict_key" /\ ret.arg[2] \in DOMAIN Tables[ret.arg[1]]) =>
            /\ ret.exc = ""
            /\ FromDictValue(Tables[ret.arg[1]], ret.val) = Ok(ret.arg[2])
    /\ ret.op = "_from_dict_value" =>
            \A c \in DOMAIN Tables[ret.arg[1]] :
                ret.arg[2] \in Range(Tables[ret.arg[1]][c]) =>
                    /\ ret.exc = ""
                    /\ ret.val = c
                    /\ FromDictKey(Tables[ret.arg[1]], ret.val)
                           = Ok(Tables[ret.arg[1]][c][1])

C10_Witness ==
    /\ ret.op = "_from_dict_value"
    /\ ret.arg = <<"VOLUME_UNITS", "cc">>
    /\ ret.val = "M"

\* the first name of the edge or level that name s stands for; unspecified
\* stays unspecified
CanonicalEdge(s) ==
    IF s = None THEN None
    ELSE TRIGGER[CHOOSE c \in DOMAIN TRIGGER : s \in Range(TRIGGER[c])][1]

\* C9: after set_trigger(start, stop) has stored a pattern of the start/stop
\* table, get_trigger in the 'start stop' shape returns the same pair, also
\* where start or stop is unspecified.
C9_TriggerRoundTrip ==
    (ret.op = "set_trigger" /\ ret.exc = "" /\ ret.arg[2] = None) =>
        LET g == GetTrigger(Ctx(dev, timeout), ret.arg[1], "start stop")
        IN  /\ g.ctx.exc = ""
            /\ g.val = [start |-> CanonicalEdge(ret.arg[3]),
                        stop |-> CanonicalEdge(ret.arg[4])]

\* the elements of a set of numbers in ascending order
RECURSIVE Ascending(_)
Ascending(S) ==
    IF S = {} THEN <<>>
    ELSE LET m == CHOOSE x \in S : \A y \in S : x <= y
         IN  <<m>> \o Ascending(S \ {m})

\* the status queries to 0..99 in ascending order, one each
AllProbes == [i \in 1..(AddressMax - AddressMin + 1) |-> IntStr(AddressMin + i - 1) \o CRLF]

StartsWith(written, prefix) == PyTo(written, Len(prefix)) = prefix

\* the commands of a call: as many as expected, each starting as expected
Matches(written, expected) ==
    /\ Len(written) = Len(expected)
    /\ \A j \in DOMAIN expected : StartsWith(written[j], expected[j])

FlatSeq(seqs) ==
    LET F[i \in 0..Len(seqs)] == IF i = 0 THEN <<>> ELSE F[i - 1] \o seqs[i]
    IN  F[Len(seqs)]

\* the mnemonics one follow-up field stands for: a volume given with value
\* and unit is two VOL commands
FieldMnemonics(k, v) ==
    IF k = "rate" THEN <<"RAT">>
    ELSE IF k = "direction" THEN <<"DIR">>
    ELSE IF k = "volume"
        THEN IF v.t = "dict" /\ Keys(v.items) = {"value", "unit"}
                 THEN <<"VOL", "VOL">> ELSE <<"VOL">>
    ELSE <<>>

\* the follow-up fields of a step in the order the step lists them
ListedFields(func) == [i \in DOMAIN func |-> func[i][1]]

\* the follow-up fields present on a step in the order rate, volume, direction
FixedFields(func) ==
    SelectSeq(<<"rate", "volume", "direction">>, LAMBDA k : Has(func, k))

RateClassNames == {Head(PHASE_FUNCTION[f]) : f \in RATE_FUNCTION}

\* what the compiler is to write for step func at phase i of pump a, its
\* follow-up fields taken in the order `fields`
StepCommands(a, i, func, fields) ==
    LET name == Get(func, "function").s
        data == Without(func, "function")
        rate == name \in RateClassNames
        datum == IF rate \/ data = <<>> THEN "" ELSE ArgText(data[1][2])
    IN  <<IntStr(a) \o "PHN" \o IntStr(i) \o CRLF,
          IntStr(a) \o "FUN" \o FromDictValue(PHASE_FUNCTION, name).val \o datum \o CRLF>>
        \o (IF rate
                THEN FlatSeq([j \in DOMAIN fields |->
                                 [m \in DOMAIN FieldMnemonics(fields[j], Get(func, fields[j])) |->
                                     IntStr(a) \o FieldMnemonics(fields[j], Get(func, fields[j]))[m]]])
            ELSE <<>>)

\* the addresses and the program of the config [{address:, function:}]
AddressesOf(config) ==
    LET addr == Get(config.items[1].items, "address")
    IN  IF addr.t = "int" THEN <<addr.ip>>
        ELSE [j \in DOMAIN addr.items |-> addr.items[j].ip]

ProgramOfConfig(config) == Get(config.items[1].items, "function").items

\* C3 as stated: set_config writes, per address and step, the set-phase
\* command, the set-function command with the inline datum, and for a
\* rate-class step the follow-ups always in the order rate, volume, direction
C3_FollowUpsInFixedOrder ==
    (ret.op = "set_config" /\ ret.exc = "") =>
        LET addr == AddressesOf(ret.arg[1])
            prog == ProgramOfConfig(ret.arg[1])
        IN  Matches(wire,
                    FlatSeq([n \in DOMAIN addr |->
                        FlatSeq([i \in DOMAIN prog |->
                            StepCommands(addr[n], i, prog[i].items,
                                         FixedFields(prog[i].items))])]))

\* C3 amended: ... and for a rate-class step the follow-ups of the fields
\* rate, volume, direction in the order in which the step lists them
C3_FollowUpsInListedOrder ==
    (ret.op = "set_config" /\ ret.exc = "") =>
        LET addr == AddressesOf(ret.arg[1])
            prog == ProgramOfConfig(ret.arg[1])
        IN  Matches(wire,
                    FlatSeq([n \in DOMAIN addr |->
                        FlatSeq([i \in DOMAIN prog |->
                            StepCommands(addr[n], i, prog[i].items,
                                         ListedFields(prog[i].items))])]))

\* a completed call for a rate-class step that lists direction, volume, rate
C3_Witness ==
    /\ ret.op = "set_config"
    /\ ret.exc = ""
    /\ \E j \in 1..(Len(wire) - 2) :
        /\ StartsWith(wire[j], IntStr(Wired[1]) \o "DIR")
        /\ StartsWith(wire[j + 1], IntStr(Wired[1]) \o "VOL")
        /\ StartsWith(wire[j + 2], IntStr(Wired[1]) \o "RAT")

\* the names a step may give its fields
KnownFields ==
    {"function"} \cup {Head(COMMAND[c]) : c \in Range(RATE_PARAM)}
                 \cup {PHASE_FUN_DATA[f] : f \in DOMAIN PHASE_FUN_DATA}

\* a step with an unknown field name, or with more than one inline datum
Rejectable(func) ==
    \/ Keys(func) \ KnownFields # {}
    \/ /\ Get(func, "function").s \notin RateClassNames
       /\ Len(Without(func, "function")) > 1

\* C4: a program with an unknown field name or a second inline datum in
\* some step is rejected and nothing has been written to the transport
C4_RejectedBeforeAnyWrite ==
    (/\ ret.op = "set_config"
     /\ \E i \in DOMAIN ProgramOfConfig(ret.arg[1]) :
            Rejectable(ProgramOfConfig(ret.arg[1])[i].items)) =>
        (ret.exc # "" /\ wire = <<>>)

\* ---- program extractor and config merge ----------------------------------
\* phases 1..Len(fs) of pump a store the functions fs, all later ones stop
TableReads(a, fs) ==
    \A p \in Phases : dev[a].prog[p].f = (IF p <= Len(fs) THEN fs[p] ELSE "STP")

\* the function names of the program in record r of a get_config result
Functions(r) ==
    LET prog == Get(r.items, "function").items
    IN  [i \in DOMAIN prog |-> Get(prog[i].items, "function").s]

\* get_config has been called for the program of the first pump alone
ProgramAsked ==
    /\ ret.op = "get_config"
    /\ ret.arg[1] = <<Wired[1]>>
    /\ ret.arg[2] = <<"function">>

\* C5 as stated: phases 1-3 rate, jump, stop and phases 4-41 stop are
\* extracted as the 3-element program rate, jump, stop
C5_ThreeElementProgram ==
    (ProgramAsked /\ TableReads(Wired[1], <<"RAT", "JMP", "STP">>)) =>
        (ret.exc = "" /\ Functions(ret.val.items[1]) = <<"rate", "jump", "stop">>)

\* C5 amended: that table is extracted as the 2-element program rate, jump;
\* the stop at phase 3 is a trailing stop and is elided with the others
C5_TrailingStopElided ==
    (ProgramAsked /\ TableReads(Wired[1], <<"RAT", "JMP", "STP">>)) =>
        (ret.exc = "" /\ Functions(ret.val.items[1]) = <<"rate", "jump">>)

C5_Witness ==
    /\ ProgramAsked
    /\ TableReads(Wired[1], <<"RAT", "JMP", "STP">>)
    /\ ret.exc = ""

\* the phases of pump a that are not stop
NonStop(a) == {p \in Phases : dev[a].prog[p].f # "STP"}

\* the function names stored in pump a up to its last non-stop phase
StoredFunctions(a) ==
    [p \in 1..(CHOOSE q \in NonStop(a) : \A o \in NonStop(a) : o <= q) |->
        Head(PHASE_FUNCTION[dev[a].prog[p].f])]

\* C6: whenever the table of a pump has a non-stop phase, the program
\* extracted from it is, in order, every phase up to and including the last
\* non-stop phase, the stops in between included; and the extraction of such
\* a table alone succeeds
C6_InternalStopsKept ==
    /\ (ProgramAsked /\ NonStop(Wired[1]) # {}) => ret.exc = ""
    /\ (/\ ret.op = "get_config" /\ ret.exc = "" /\ ~ret.arg[3]
        /\ "function" \in Range(ret.arg[2])) =>
            \A j \in DOMAIN ret.arg[1] :
                /\ NonStop(ret.arg[1][j]) # {}
                /\ Functions(ret.val.items[j]) = StoredFunctions(ret.arg[1][j])

\* a program read back with a stop at phase 2 and a jump at phase 3
C6_Witness ==
    /\ ProgramAsked
    /\ ret.exc = ""
    /\ Len(Functions(ret.val.items[1])) = 3
    /\ Functions(ret.val.items[1])[2] = "stop"
    /\ Functions(ret.val.items[1])[3] = "jump"

\* the addresses record r of a merged result carries
Members(r) ==
    LET addr == Get(r.items, "address").items
    IN  [k \in DOMAIN addr |-> addr[k].ip]

\* the config of pump a read on its own, without its address
OwnConfig(a, param) ==
    Without(GetConfig(Ctx(dev, timeout), <<a>>, param, FALSE).val.items[1].items, "address")

\* C7: a merged result has one record per class of equal configs: every
\* queried address is in exactly one record, a record holds the config of
\* each of its addresses, and no two records hold equal configs
C7_OneRecordPerClass ==
    (ret.op = "get_config" /\ ret.exc = "" /\ ret.arg[3]) =>
        LET recs == ret.val.items
        IN  /\ \A a \in Range(ret.arg[1]) :
                    Cardinality({r \in DOMAIN recs : a \in Range(Members(recs[r]))}) = 1
            /\ Len(FlatSeq([r \in DOMAIN recs |-> Members(recs[r])])) = Len(ret.arg[1])
            /\ \A r \in DOMAIN recs :
                /\ Members(recs[r]) # <<>>
                /\ \A a \in Range(Members(recs[r])) :
                    /\ a \in Range(ret.arg[1])
                    /\ Without(recs[r].items, "address") = OwnConfig(a, ret.arg[2])
            /\ \A r, q \in DOMAIN recs :
                    r # q => Without(recs[r].items, "address") # Without(recs[q].items, "address")

\* three pumps merged into two records, one of them carrying two addresses
C7_Witness ==
    /\ ret.op = "get_config"
    /\ ret.exc = ""
    /\ ret.arg[3]
    /\ Len(ret.arg[1]) = 3
    /\ "function" \in Range(ret.arg[2])
    /\ Len(ret.val.items) = 2
    /\ \E r \in DOMAIN ret.val.items : Len(Members(ret.val.items[r])) = 2

\* ---- numeric encoder -------------------------------------------------------
\* the number the text s denotes
Denotes(s) == ParseFloat(s)

\* the number f rounded to at most nd fractional digits
Rounded(f, nd) == IF f.t = "int" THEN PFloat(f.ip, "") ELSE RoundFloat(f, nd)

\* the last call was _float and it returned a text
Encoded == ret.op = "_float" /\ ret.exc = ""

\* C11: for every value the numeric encoder accepts, the text it returns
\* denotes the value rounded to at most max_decimal fractional digits, with
\* the integer part intact.
C11_IntegerPartIntact ==
    Encoded => Denotes(ret.val) = Rounded(ret.arg[1], ret.arg[3])

\* ---- setters ---------------------------------------------------------------
\* the number v lies outside 0 .. 10^digits - 1
OutOfMagnitude(v, digits) ==
    /\ IsNum(v)
    /\ \/ v.ip < 0
       \/ v.ip > Pow10(digits) - 1
       \/ (v.ip = Pow10(digits) - 1 /\ v.fr # "")

\* the last call handed a magnitude out of range to a numeric setter
MagnitudeRefused ==
    \/ /\ ret.op \in {"set_diameter", "set_rate", "set_volume"}
       /\ OutOfMagnitude(ret.arg[2], MAX_DIGITS)
    \/ /\ ret.op = "set_function"
       /\ ret.arg[2] = PStr("pause")
       /\ OutOfMagnitude(ret.arg[3], 2)

\* C12: a magnitude outside 0 .. 10^max_digits - 1 given to a numeric setter
\* (diameter, rate, volume value, pause datum) is rejected before anything is
\* transmitted: the setter raises and writes no bytes.
C12_RejectedBeforeTransmission ==
    MagnitudeRefused => ret.exc = "AssertionError" /\ wire = <<>>

C12_Witness ==
    /\ ret.op = "set_function"
    /\ ret.arg = <<Wired[1], PStr("pause"), PInt(100)>>
    /\ ret.exc = "AssertionError"
    /\ wire = <<>>

\* v is an int inside the range DATA_RANGE[type]
InRange(v, type) ==
    /\ v.t = "int"
    /\ DATA_RANGE[type][1] <= v.ip /\ v.ip <= DATA_RANGE[type][2]

\* the function named name in a set_function call takes a datum of the type
FunctionTakes(name, type) ==
    \E f \in DOMAIN PHASE_FUN_DATA :
        PHASE_FUN_DATA[f] = type /\ name \in {PStr(n) : n \in Range(PHASE_FUNCTION[f])}

\* C13: no command is written with an address outside 0..99, a phase number
\* (set-phase argument or jump / if / event-trap datum) outside 1..41, a loop
\* count outside 1..99, a pause number outside 0..99, a TTL level outside
\* 0..1 or a safe-mode timeout outside 0..255.
C13_NoCommandOutOfRange ==
    wire # <<>> =>
        /\ InRange(PInt(ret.arg[1]), "address")
        /\ ret.op = "set_phase" => InRange(PInt(ret.arg[2]), "phase")
        /\ ret.op = "set_ttl_output" => InRange(PInt(ret.arg[2]), "ttl")
        /\ (ret.op = "set_com_mode" /\ ret.arg[2] = PStr("safe"))
               => InRange(ret.arg[3], "timeout")
        /\ (ret.op = "set_function" /\ IsNum(ret.arg[3]))
               => \A type \in {"phase", "count", "ttl"} :
                      FunctionTakes(ret.arg[2], type) => InRange(ret.arg[3], type)
        /\ (ret.op = "set_function" /\ IsNum(ret.arg[3])
                /\ FunctionTakes(ret.arg[2], "number"))
               => ~OutOfMagnitude(ret.arg[3], 2)

\* the table key of the name held by the str v (a text no command has, for
\* a name the table does not hold)
CodeOf(table, v) ==
    IF \E k \in DOMAIN table : v.s \in Range(table[k])
        THEN CHOOSE k \in DOMAIN table : v.s \in Range(table[k])
    ELSE "<unknown>"

\* str(v) of a str, an int or a float
Str(v) ==
    IF v.t = "str" THEN v.s
    ELSE IF v.t = "int" THEN ToString(v.ip)
    ELSE ToString(v.ip) \o "." \o (IF v.fr = "" THEN "0" ELSE v.fr)

\* the text of the number v as the numeric encoder hands it to _cmd
Encoding(v, digits, decimal) == Float(v, digits, decimal).val

\* the last call's arguments were accepted: it got as far as the transport
\* with each command it had to send
Accepted == ret.exc \notin {"AssertionError", "TypeError"}

\* the mnemonic and argument text of each command the last call has to send,
\* in the order of the calls, written out per setter
CommandsDue ==
    LET a == ret.arg
    IN  CASE ret.op = "get_status" -> <<"">>
          [] ret.op = "set_phase" -> <<"PHN" \o IntStr(a[2])>>
          [] ret.op = "set_ttl_output" -> <<"OUT" \o IntStr(a[3]) \o IntStr(a[2])>>
          [] ret.op = "set_diameter" ->
                <<"DIA" \o Encoding(a[2], MAX_DIGITS, MAX_DECIMAL)>>
          [] ret.op = "set_com_mode" ->
                <<"SAF" \o (IF a[2] = PStr("basic") THEN "0"
                            ELSE IF a[2] = PStr("safe") THEN Str(a[3])
                            ELSE "")>>
          [] ret.op = "set_rate" ->
                <<"RAT" \o Encoding(a[2], MAX_DIGITS, MAX_DECIMAL)
                    \o (IF a[3] = PNone THEN ""
                        ELSE CodeOf(VOLUME_UNITS, a[3]) \o CodeOf(TIME_UNITS, a[4]))>>
          [] ret.op = "set_volume" ->
                (IF a[2] = PNone THEN <<>>
                 ELSE <<"VOL" \o Encoding(a[2], MAX_DIGITS, MAX_DECIMAL)>>)
                \o (IF a[3] = PNone THEN <<>>
                    ELSE <<"VOL" \o CodeOf(VOLUME_UNITS, a[3]) \o "L">>)
          [] ret.op = "set_function" ->
                <<"FUN" \o CodeOf(PHASE_FUNCTION, a[2])
                    \o (IF a[3] = PNone THEN ""
                        ELSE IF a[2] = PStr("pause") /\ a[3] = PStr("trigger") THEN "0"
                        ELSE IF a[2] = PStr("pause") THEN Encoding(a[3], 2, 1)
                        ELSE Str(a[3]))>>
          [] OTHER -> <<>>

\* C14: every command written is exactly the decimal address without
\* padding, the mnemonic (empty for the status query), the text of the
\* arguments in call order without separators, and CR LF.
C14_CommandText ==
    (~Idle /\ Accepted) =>
        /\ Len(wire) <= Len(CommandsDue)
        /\ ret.exc = "" => Len(wire) = Len(CommandsDue)
        /\ \A i \in DOMAIN wire :
               wire[i] = ToString(ret.arg[1]) \o CommandsDue[i] \o "\r\n"

C14_Witness ==
    /\ ret.op = "set_rate"
    /\ ret.arg = <<Wired[1], PFloat(1, "5"), PStr("ml"), PStr("hr")>>
    /\ wire = <<"3RAT1.5MH\r\n">>

\* ---- alarms ----------------------------------------------------------------
\* the step is a status query of a pump on the bus that has an alarm to
\* report with its reply
AlarmedStatusQuery ==
    /\ Idle
    /\ ret'.op = "get_status"
    /\ ret'.arg[1] \in bus
    /\ dev[ret'.arg[1]].alarm # ""

\* C15: an alarm is not an error: no public operation fails only because the
\* reply carries an alarm status; the status query of a pump that reports an
\* alarm still completes.
C15_AlarmIsNotAnError == [][AlarmedStatusQuery => ret'.exc = ""]_vars

\* ---- timeout against malformed response -------------------------------------
\* the last call was _cmd to an address in range, with a read timeout set,
\* and read_until came back without the end marker: the timeout ended the
\* read, with no bytes or with a part of a frame
ReadTimedOut ==
    /\ ret.op = "_cmd"
    /\ ret.arg[1] \in DATA_RANGE["address"][1]..DATA_RANGE["address"][2]
    /\ timeout # "None"
    /\ (ret.arg[2] = "" \/ PyLast(ret.arg[2], 1) # ETX)

\* C16: whenever the read ends by timeout, with no bytes or with only a
\* partial frame without the end marker, the command fails with the timeout
\* error, not with the malformed-response error.
C16_TimeoutNotMalformed == ReadTimedOut => ret.exc = "TimeoutError"

\* ---- callers sharing one instance --------------------------------------------
\* the callers whose command is written and whose reply is not yet read
InFlight == {c \in Callers : calls[c].pc = "read"}

\* C17: for any interleaving of callers sharing one instance, at most one
\* request is in flight (write-then-read is atomic), and a caller never
\* receives the response to another caller's command.
C17_MutualExclusion ==
    /\ Cardinality(InFlight) <= 1
    /\ \A c \in Callers :
           (calls[c].pc = "done" /\ calls[c].exc = "")
               => calls[c].res.address = calls[c].addr

\* ---- calibration before the scan ---------------------------------------------
\* the last call was an address scan that ran its probes to the end
Scanned == ret.op = "get_avail_address" /\ ret.exc = ""

\* C18: in every execution set_timeout has completed before the first probe
\* of any get_avail_address, also on an instance constructed with the default
\* arguments: a scan that has probed leaves a timeout that set_timeout
\* measured.
C18_CalibratedBeforeScan == Scanned => timeout = "set"

\* ---- trigger encode ----------------------------------------------------------
\* the letter of a start or stop condition in a start/stop pattern
EdgeLetter(s) == IF s = None THEN "_" ELSE CodeOf(TRIGGER, PStr(s))

\* the last call was set_trigger with a setup name and a condition
BothForms ==
    /\ ret.op = "set_trigger"
    /\ ret.arg[2] # None
    /\ (ret.arg[3] # None \/ ret.arg[4] # None)

\* ... with a setup name of the table and no condition
NameOnly ==
    /\ ret.op = "set_trigger"
    /\ ret.arg[2] \in NamesOf(TRIGGER_SETUP)
    /\ ret.arg[3] = None /\ ret.arg[4] = None

\* ... with no setup name and a start/stop pair of the table
PairOnly ==
    /\ ret.op = "set_trigger"
    /\ ret.arg[2] = None
    /\ (ret.arg[3] # None \/ ret.arg[4] # None)
    /\ EdgeLetter(ret.arg[3]) \o EdgeLetter(ret.arg[4]) \in DOMAIN TRIGGER_START_STOP

\* C19: set_trigger called with both a setup name and a start or stop
\* condition is rejected as a caller error and writes no command; called
\* with one form only it writes a single TRG command carrying the 2-letter
\* code of that name or pair.
C19_NameXorPair ==
    /\ BothForms => ret.exc = "AssertionError" /\ wire = <<>>
    /\ NameOnly =>
           wire = <<ToString(ret.arg[1]) \o "TRG"
                        \o CodeOf(TRIGGER_SETUP, PStr(ret.arg[2])) \o "\r\n">>
    /\ PairOnly =>
           wire = <<ToString(ret.arg[1]) \o "TRG"
                        \o TRIGGER_START_STOP[EdgeLetter(ret.arg[3])
                                                  \o EdgeLetter(ret.arg[4])][1]
                        \o "\r\n">>

C19_Witness ==
    /\ BothForms
    /\ ret.arg = <<Wired[1], "level", "rising", None>>
    /\ ret.exc = "AssertionError"
    /\ wire = <<>>

\* ---- program round trip ------------------------------------------------------
\* C20: every program get_config returns for an address, fed back to
\* set_config, is accepted, and extracting again from the device yields the
\* same program.
C20_ProgramRoundTrip ==
    [][/\ (ProgramHeld /\ ret'.op = "set_config") => ret'.exc = ""
       /\ (FedBack /\ ret'.op = "get_config")
              => ret'.exc = "" /\ PyEq(ret'.val, ret.arg[1])]_vars

\* ---- inline datum of a function reply ----------------------------------------
\* the slot the pump at Wired[1] has selected: its reply to FUN is the
\* function followed by the datum printed as n.n or nn
SelectedSlot == dev[Wired[1]].prog[dev[Wired[1]].phase]

\* the text d is digit, dot, digit
IsFraction(d) ==
    Len(d) = 3 /\ IsDigit(PyAt(d, 0)) /\ PyAt(d, 1) = "." /\ IsDigit(PyAt(d, 2))

\* the selected slot holds a function that takes a datum and a datum the
\* pump prints as n.n (a pause) or as two digits
DatumStored ==
    \/ SelectedSlot.f = "PAS" /\ IsFraction(SelectedSlot.d)
    \/ /\ SelectedSlot.f \in DOMAIN PHASE_FUN_DATA
       /\ IsDigits(SelectedSlot.d)
       /\ Len(SelectedSlot.d) \in 1..2

\* the numeric value of the stored datum, 'trigger' for a pause of 0
DatumValue ==
    LET d == SelectedSlot.d
        v == IF IsFraction(d) THEN ParseFloat(d) ELSE PInt(StrInt(d))
    IN  IF SelectedSlot.f = "PAS" /\ v.ip = 0 /\ v.fr = "" THEN PStr("trigger") ELSE v

\* C21: get_function decodes the inline datum of a function reply to its
\* numeric value: n.n is a pause with that value, two trailing digits are the
\* integer of those two digits (JMP05 -> 5, LOP12 -> 12), and only a pause
\* datum equal to 0 is reported as 'trigger'.
C21_DatumDecoded ==
    (ret.op = "get_function" /\ DatumStored) =>
        /\ ret.exc = ""
        /\ PyEq(Get(ret.val.items, "data"), DatumValue)

\* ---- extraction from an empty device, and what a read leaves behind ----------
\* C22: on a pump whose 41 phase slots all read as stop, get_config of the
\* function parameter ends normally and returns an empty program for that
\* address.
C22_EmptyProgram ==
    (ProgramAsked /\ NonStop(Wired[1]) = {}) =>
        (ret.exc = "" /\ Functions(ret.val.items[1]) = <<>>)

\* ---- pause duration against the trigger sentinel -----------------------------
\* the last call was set_function for a pause with a number greater than 0
\* inside the accepted range
PositivePause ==
    /\ ret.op = "set_function"
    /\ ret.arg[2] = PStr("pause")
    /\ IsNum(ret.arg[3])
    /\ ~OutOfMagnitude(ret.arg[3], 2)
    /\ (ret.arg[3].ip > 0 \/ ret.arg[3].fr # "")

\* the pause commands that carry the sentinel, pause until triggered
SentinelCommands(a) == {ToString(a) \o "FUNPAS" \o z \o "\r\n" : z \in {"0", "0.0"}}

\* C23: set_function for a pause with a numeric duration greater than 0,
\* within 0..99, never writes the datum 0 or 0.0, the sentinel for a pause
\* until an external trigger.
C23_NoSentinelForDuration ==
    PositivePause => \A i \in DOMAIN wire : wire[i] \notin SentinelCommands(ret.arg[1])

\* C24: reading a configuration has no side effect on the device: after
\* get_config returns, the selected phase number and every stored parameter
\* and phase slot of every pump equal their values before the call.
C24_ReadLeavesDevice ==
    [][(Idle /\ ret'.op = "get_config" /\ ret'.exc = "") => dev' = dev]_vars

\* ---- late replies --------------------------------------------------------------
\* C25: every Response returned by a command addressed to a is the reply to
\* that very command, its address field equal to a, also when an earlier
\* command timed out and its reply reaches the port late; the address scan
\* reports an address present only if the pump at that address answered.
C25_ReplyToThatCommand ==
    /\ (ret.op = "_cmd" /\ ret.exc = "") => ret.val.address = ret.arg[1]
    /\ (ret.op = "get_avail_address" /\ ret.exc = "") => Range(ret.val) \subseteq bus

====
